---- MODULE Spec2Model ----
(***************************************************************************)
(* HelixKit core: the task scheduler (src/src/core/resource.ts, scheduler  *)
(* section) and the reactivity system (src/unnamed/part_013, reactivity).  *)
(*                                                                         *)
(* The program is single threaded.  User code (an event handler, a task    *)
(* callback, an effect body) is modelled as a stack of frames; the frame   *)
(* on top decides which operation of the API the user code calls next.     *)
(* The host's event loop runs queued microtasks before anything else, then *)
(* animation-frame callbacks or a new macrotask ("turn") of user code.     *)
(***************************************************************************)
EXTENDS Integers, Sequences, FiniteSets, TLC

\* ---------------------------------------------------------------- bounds
MaxTasks == 3      \* task ids issued: 1..MaxTasks
MaxEffects == 2    \* effects created
MaxDepth == 2      \* nesting of user-code frames
MaxTime == 16      \* the clock stops advancing here
MaxNotify == 2     \* task ids issued when only signal writes schedule tasks
MaxRenders == 3    \* render calls made
MaxReads == 2      \* reads of the memo made by top-level code
MaxFetches == 2    \* fetcher calls made
MaxCallbacks == 2  \* callbacks given to afterLayout, afterPaint, scheduleIdle
MaxNest == 3       \* nesting of frames where an effect body creates an effect

\* ------------------------------------------------------ program constants
HIGH == 0
NORMAL == 1
LOW == 2
frameLength == 16

Priorities == {HIGH, NORMAL, LOW}
Signals == {1, 2}

\* the signals createResource creates
data == 3
loading == 4
error == 5
ResourceSignals == {data, loading, error}
NaN == "NaN"
Values == {"0", "1", NaN}
Updaters == {"same", "flip"}
NoEffect == 0
\* a callback: a closure of user code, or the closure write passes to
\* scheduleTask, which captures its signal.  subs and unread are history: the
\* signal's subscribers at the time of the write, and the effects that have
\* not read the signal in their latest run nor started a run since the write
Callback(kind, sig, subs, unread) ==
  [kind |-> kind, sig |-> sig, subs |-> subs, unread |-> unread]
UserCallback == Callback("user", 0, {}, {})
NoTask == [id |-> 0, callback |-> Callback("none", 0, {}, {})]

VARIABLES
  nextTaskId,            \* let nextTaskId = 1
  taskQueue,             \* const taskQueue: Task[][] = [[], [], []]
  isScheduled,           \* let isScheduled = false
  currentFrameDeadline,  \* let currentFrameDeadline = 0
  now,                   \* performance.now()
  microtasks,            \* processTaskQueue jobs in the host's microtask queue
  rafs,                  \* continuation callbacks waiting for an animation frame
  inDrain,               \* a call of processTaskQueue is on the call stack
  priority,              \* the loop variable of processTaskQueue
  cur,                   \* the task shifted off its queue and being executed
  stack,                 \* frames of running user code, innermost last
  value,                 \* signal.value of each signal
  subscribers,           \* signal.subscribers, in insertion order
  currentEffect,         \* let currentEffect = null
  nEffects,              \* effect closures created so far
  ret,                   \* the value returned by the last cancelTask call
  reported,              \* history: console.error calls made by the drain's catch
  escaped,               \* history: an exception reached the host uncaught
  started,               \* history: tasks in the order their callbacks started
  drainSnap,             \* history: ids queued when the current drain began
  drainBase,             \* history: Len(started) when the current drain began
  cancelled,             \* history: ids for which cancelTask returned true
  threw,                 \* history: ids of the tasks whose callback threw
  yielded,               \* history: ids at the head of a queue when a drain ran out of time
  handles,               \* history: effects whose createEffect returned
  disposed,              \* history: effects whose returned function was called
  lastRead,              \* history: signals read by the latest run of each effect
  batch,                 \* history: notify tasks scheduled by the latest turn
  batchRan,              \* history: <<effect, signal>> run by tasks of batch
  ranInTask,             \* history: effects called by the running notify task
  lastWrite,             \* history: the signal of the latest write call, and
                         \* whether the call found the value changed
  track,                 \* which histories this specification records
  nodes,                 \* the DOM nodes created so far; node 1 is the container
  renderRoot,            \* container._helixRoot: { element, mount }
  renders,               \* render calls made
  lastInput,             \* history: the element passed to the latest render
  lastOps,               \* history: kinds of DOM mutation the latest render made
  asked,                 \* history: keys of the components that called onUnmount
  cleaned,               \* history: cleanup callbacks that were called
  renderThrew,           \* history: a render call ended with an exception
  fCalls,                \* history: invocations of the function given to createMemo
  memoReads,             \* history: reads of the memo made by top-level code
  memoRead,              \* the value the latest read of the memo returned
  fetches,               \* the promises fetcher returned that are still pending
  nFetches,              \* fetcher calls made
  settled,               \* history: the fetches settled, in order, with their outcome
  hostCallbacks,         \* callbacks the host holds: animation frame, timer, idle
  nCallbacks,            \* callbacks given to afterLayout, afterPaint, scheduleIdle
  invoked                \* history: how often each of these callbacks was called

domVars == <<nodes, renderRoot, renders, lastInput, lastOps, asked, cleaned,
             renderThrew>>
memoVars == <<fCalls, memoReads, memoRead>>
resVars == <<fetches, nFetches, settled>>
layoutVars == <<hostCallbacks, nCallbacks, invoked>>
extVars == <<domVars, memoVars, resVars, layoutVars>>
coreVars == <<nextTaskId, taskQueue, isScheduled, currentFrameDeadline, now,
              microtasks, rafs, inDrain, priority, cur, stack, value,
              subscribers, currentEffect, nEffects, ret, reported, escaped,
              started, drainSnap, drainBase, cancelled, threw, yielded, handles,
              disposed, lastRead, batch, batchRan, ranInTask, lastWrite, track>>
schedVars == <<nextTaskId, taskQueue, isScheduled, currentFrameDeadline,
               microtasks>>
loopVars == <<rafs, inDrain, priority, cur, reported, started, drainSnap,
              drainBase>>
sigVars == <<value, subscribers, currentEffect, nEffects>>
histVars == <<ret, cancelled, threw, yielded, handles, disposed, lastRead, batch, batchRan,
              ranInTask, lastWrite, track, extVars>>
userHist == <<ret, cancelled, threw, yielded, handles, disposed, lastRead,
              batch, batchRan, ranInTask, lastWrite, track>>
vars == <<nextTaskId, taskQueue, isScheduled, currentFrameDeadline, now,
          microtasks, rafs, inDrain, priority, cur, stack, value, subscribers,
          currentEffect, nEffects, ret, reported, escaped, started, drainSnap,
          drainBase, cancelled, threw, yielded, handles, disposed, lastRead, batch, batchRan,
          ranInTask, lastWrite, track, extVars>>

Effects == 1..MaxEffects

\* ---------------------------------------------------------------- helpers
Range(s) == {s[i] : i \in 1..Len(s)}

Ids(q) == {q[i].id : i \in 1..Len(q)}

QueuedIds == UNION {Ids(taskQueue[p]) : p \in Priorities}

RemoveAt(q, i) ==
  [j \in 1..(Len(q) - 1) |-> IF j < i THEN q[j] ELSE q[j + 1]]

Frame(kind, eff, pending, via) ==
  [kind |-> kind, eff |-> eff, pending |-> pending, via |-> via]

\* Set.prototype.add on an insertion-ordered set
SetAdd(s, x) == IF x \in Range(s) THEN s ELSE Append(s, x)

Pop(s) == SubSeq(s, 1, Len(s) - 1)

ReplaceTop(s, f) == [s EXCEPT ![Len(s)] = f]

Top == stack[Len(stack)]

\* user code is executing and may call the API
InUserCode == stack # <<>> /\ Top.kind \in {"turn", "task", "effect"}

Idle == stack = <<>> /\ ~inDrain

\* history h is recorded
Tracks(h) == h \in track

\* history: effect e starts a run (sigs = Signals) or reads a signal
\* (sigs = {s}): it leaves the unread sets of the pending notifications of sigs
Forget(task, e, sigs) ==
  IF task.callback.sig \in sigs
    THEN [task EXCEPT !.callback.unread = @ \ {e}]
    ELSE task

ForgetInQueues(q, e, sigs) ==
  IF Tracks("reads")
    THEN [p \in Priorities |->
            [i \in 1..Len(q[p]) |-> Forget(q[p][i], e, sigs)]]
    ELSE q

\* ------------------------------------------------ virtual elements, DOM
\* the element names document.createElement accepts, and component functions
Tags == {"div", "ul", "li", "p"}
Components == {"A", "B", "T"}

\* no props: {}
NoProps == [n \in {} |-> ""]

\* element.rendered not set (undefined), and an undefined node
NoEl == [type |-> "#undefined"]
NoNode == 0

\* h(type, props, ...children): key is props.key, "" when there is none
El(type, key, props, children) ==
  [type |-> type, key |-> key, props |-> props, children |-> children,
   rendered |-> NoEl, value |-> ""]

\* a child that is a string or a number, and its String(child)
Prim(v) == [El("#prim", "", NoProps, <<>>) EXCEPT !.value = v]

\* typeof element.type === 'function'
IsFn(type) == type \in Components

\* typeof child === 'object'
IsObject(child) == child.type # "#prim"

\* prop names that start with 'on', and the event each names
IsListener(name) == name \in {"onclick"}
EventName(name) == IF name = "onclick" THEN "click" ELSE name

\* props updateDOMProps and mount skip
IsSpecial(name) == name \in {"children", "key", "ref"}

\* newValue == null || newValue === false
IsAbsent(props, name) ==
  name \notin DOMAIN props \/ props[name] \in {"null", "false"}

\* a DOM node; kids are node ids, a node's id is its position in the heap
Node(tag, text) ==
  [tag |-> tag, text |-> text, attrs |-> NoProps, listeners |-> {},
   kids |-> <<>>]

\* the heap of DOM nodes a call works on, with what it has done so far:
\* ops, the kinds of mutation performed; asked, the components that called
\* onUnmount; ran, the cleanups called, in order; error, an exception is unwinding;
\* deferred, the nodes whose ref was handed to afterLayout
Dom(heap) ==
  [nodes |-> heap, ops |-> {}, asked |-> {}, ran |-> <<>>, error |-> FALSE,
   deferred |-> <<>>]

\* node.parentNode
ParentOf(heap, n) ==
  IF \E q \in DOMAIN heap : n \in Range(heap[q].kids)
    THEN CHOOSE q \in DOMAIN heap : n \in Range(heap[q].kids)
    ELSE NoNode

\* parentNode.childNodes[i], i counted from 0
ChildAt(heap, parent, i) ==
  IF i + 1 <= Len(heap[parent].kids) THEN heap[parent].kids[i + 1]
                                      ELSE NoNode

\* the heap with node n taken out of its parent
Detached(heap, n) ==
  LET Keep(k) == k # n
  IN [q \in DOMAIN heap |-> [heap[q] EXCEPT !.kids = SelectSeq(@, Keep)]]

\* the sequence with x put in front of its element y
PutBefore(s, x, y) ==
  LET i == CHOOSE j \in 1..Len(s) : s[j] = y
  IN SubSeq(s, 1, i - 1) \o <<x>> \o SubSeq(s, i, Len(s))

Did(d, op) == [d EXCEPT !.ops = @ \cup {op}]

\* document.createElement / createTextNode: the new node is the last of the
\* heap.  '#text' is not a name createElement accepts: it throws
CreateNode(d, tag, text) ==
  IF tag \notin Tags \cup {"#textnode"}
    THEN [d EXCEPT !.error = TRUE]
    ELSE Did([d EXCEPT !.nodes = Append(@, Node(tag, text))], "create")

Newest(d) == Len(d.nodes)

\* parent.appendChild(child): a child that has a parent is moved
AppendChild(d, parent, child) ==
  LET free == Detached(d.nodes, child)
  IN Did([d EXCEPT !.nodes =
            [free EXCEPT ![parent].kids = Append(@, child)]], "insert")

\* parent.insertBefore(child, ref)
InsertBefore(d, parent, child, ref) ==
  LET free == Detached(d.nodes, child)
  IN Did([d EXCEPT !.nodes =
            [free EXCEPT ![parent].kids = PutBefore(@, child, ref)]], "insert")

\* parent.removeChild(child)
RemoveChild(d, parent, child) ==
  Did([d EXCEPT !.nodes = Detached(@, child)], "remove")

\* parent.replaceChild(newNode, oldNode)
ReplaceChild(d, parent, newNode, oldNode) ==
  RemoveChild(InsertBefore(d, parent, newNode, oldNode), parent, oldNode)

\* parentNode.textContent = ''
ClearChildren(d, parent) ==
  IF d.nodes[parent].kids = <<>> THEN d
  ELSE Did([d EXCEPT !.nodes[parent].kids = <<>>], "remove")

\* node.setAttribute(name, value) / node.removeAttribute(name)
SetAttribute(d, n, name, v) ==
  Did([d EXCEPT !.nodes[n].attrs =
         [a \in DOMAIN @ \cup {name} |-> IF a = name THEN v ELSE @[a]]],
      "setAttribute")

RemoveAttribute(d, n, name) ==
  Did([d EXCEPT !.nodes[n].attrs = [a \in DOMAIN @ \ {name} |-> @[a]]],
      "removeAttribute")

\* node.addEventListener(event, handler) / node.removeEventListener
AddEventListener(d, n, event, handler) ==
  Did([d EXCEPT !.nodes[n].listeners = @ \cup {<<event, handler>>}],
      "addEventListener")

RemoveEventListener(d, n, event, handler) ==
  Did([d EXCEPT !.nodes[n].listeners = @ \ {<<event, handler>>}],
      "removeEventListener")

\* ------------------------------------------------------ components, mount
\* the component functions of the user: A and B both render a <p>, T renders
\* an <li> and calls onUnmount while it renders
Output(comp, props) ==
  CASE comp = "A" -> El("p", "", NoProps, <<Prim("a")>>)
    [] comp = "B" -> El("p", "", NoProps, <<Prim("b")>>)
    [] OTHER -> El("li", "", NoProps, <<>>)

CallsOnUnmount(comp) == comp = "T"

\* onUnmount(callback): if (!currentEffect) return, and lifecycle.ts's
\* currentEffect is a constant null: the cleanup list is left as it is
OnUnmount(cleanups, callback) == cleanups

\* Component(element.props): the component instance is named by its key
CallComponent(d, el) ==
  IF CallsOnUnmount(el.type) THEN [d EXCEPT !.asked = @ \cup {el.key}] ELSE d

\* mount's loop over Object.entries(element.props)
RECURSIVE MountProps(_, _, _, _)
MountProps(names, props, n, d) ==
  IF names = {} THEN d
  ELSE LET name == CHOOSE x \in names : TRUE
           v == props[name]
           done ==
             IF name = "ref" THEN Did(d, "ref")
             ELSE IF IsListener(name) /\ v \notin {"null", "false"}
               THEN AddEventListener(d, n, EventName(name), v)
             ELSE IF name \in {"children", "key"} \/ v \in {"null", "false"}
               THEN d
             ELSE SetAttribute(d, n, name, IF v = "true" THEN "" ELSE v)
       IN MountProps(names \ {name}, props, n, done)

\* mount(element, container): [d, m], the heap and the mounted record
RECURSIVE Mount(_, _, _)
RECURSIVE MountKids(_, _, _, _, _)
MountKids(children, i, n, d, acc) ==
  IF i > Len(children) THEN [d |-> d, children |-> acc]
  ELSE IF ~IsObject(children[i])
    THEN LET made == CreateNode(d, "#textnode", children[i].value)
         IN MountKids(children, i + 1, n,
                      AppendChild(made, n, Newest(made)), acc)
    ELSE LET r == Mount(children[i], n, d)
         IN MountKids(children, i + 1, n, r.d, Append(acc, r.m))

Mount(el, container, d) ==
  IF IsFn(el.type)
    THEN LET r == Mount(Output(el.type, el.props), container,
                        CallComponent(d, el))
         IN [d |-> r.d,
             m |-> [element |-> el, node |-> r.m.node,
                    cleanup |-> IF CallsOnUnmount(el.type)
                                  THEN OnUnmount(r.m.cleanup, el.key)
                                  ELSE r.m.cleanup,
                    children |-> <<r.m>>]]
    ELSE LET made == CreateNode(d, el.type, "")
             n == Newest(made)
             withProps == MountProps(DOMAIN el.props, el.props, n, made)
             kids == MountKids(el.children, 1, n, withProps, <<>>)
         IN [d |-> IF container # NoNode
                     THEN AppendChild(kids.d, container, n) ELSE kids.d,
             m |-> [element |-> el, node |-> n, cleanup |-> <<>>,
                    children |-> kids.children]]

\* mounted.element.ref: h builds { type, props, children, key } and a ref
\* prop stays in props, so the element has no ref property
ElementRef(el) == "undefined"

\* unmount(mounted): cleanups, then the children, then the node is removed,
\* then element.ref(null) if element.ref is a function
RECURSIVE Unmount(_, _)
RECURSIVE UnmountKids(_, _, _)
UnmountKids(children, i, d) ==
  IF i > Len(children) THEN d
  ELSE UnmountKids(children, i + 1, Unmount(children[i], d))

Unmount(m, d) ==
  LET called == [d EXCEPT !.ran = @ \o m.cleanup]
      kids == UnmountKids(m.children, 1, called)
      parent == ParentOf(kids.nodes, m.node)
      removed == IF parent # NoNode THEN RemoveChild(kids, parent, m.node)
                                    ELSE kids
  IN IF ElementRef(m.element) # "undefined" THEN Did(removed, "refNull")
                                             ELSE removed

\* ------------------------------------------------------------------ diff
\* faulty variant: the prior listener stays attached
KeepsOldListener(d, n, event, handler) == d

\* if (oldValue) { node.removeEventListener(eventName, oldValue) }
DetachOld(d, n, event, handler) == RemoveEventListener(d, n, event, handler)

\* updateDOMProps's loop over the names of both prop objects.  ops records a
\* removal only when there is something to remove
RECURSIVE UpdateProps(_, _, _, _, _)
UpdateProps(names, oldProps, newProps, n, d) ==
  IF names = {} THEN d
  ELSE LET name == CHOOSE x \in names : TRUE
           had == name \in DOMAIN oldProps /\ oldProps[name] \notin {"null", "false"}
           done ==
             IF IsSpecial(name) THEN d
             ELSE IF IsAbsent(newProps, name)
               THEN IF IsListener(name)
                      THEN IF had /\ <<EventName(name), oldProps[name]>>
                                       \in d.nodes[n].listeners
                             THEN RemoveEventListener(d, n, EventName(name),
                                                      oldProps[name])
                             ELSE d
                      ELSE IF name \in DOMAIN d.nodes[n].attrs
                             THEN RemoveAttribute(d, n, name) ELSE d
             ELSE IF IsListener(name)
               THEN AddEventListener(
                      IF had THEN DetachOld(d, n, EventName(name),
                                            oldProps[name])
                             ELSE d,
                      n, EventName(name), newProps[name])
             ELSE SetAttribute(d, n, name,
                               IF newProps[name] = "true" THEN ""
                                                          ELSE newProps[name])
       IN UpdateProps(names \ {name}, oldProps, newProps, n, done)

\* updateDOMProps(node, oldProps, newProps)
UpdateDOMProps(n, oldProps, newProps, d) ==
  LET done == UpdateProps(DOMAIN oldProps \cup DOMAIN newProps, oldProps,
                          newProps, n, d)
  IN IF "ref" \in DOMAIN newProps
       THEN [Did(done, "afterLayout") EXCEPT !.deferred = Append(@, n)]
       ELSE done

\* child.key != null ? String(child.key) : `index:${i}`, i counted from 0
KeyOf(child, i) ==
  IF child.key # "" THEN <<"key", child.key>> ELSE <<"index", ToString(i)>>

\* children.map(child => typeof child === 'object' ? child : { type: '#text', ... })
Normalized(child) ==
  IF IsObject(child) THEN child ELSE [child EXCEPT !.type = "#text"]

\* oldKeyMap.get(key): the position of the last old child with that key (a
\* later set overwrites an earlier one), 0 when there is none
OldIndex(oldChildren, key) ==
  LET hits == {i \in 1..Len(oldChildren) : KeyOf(oldChildren[i], i - 1) = key}
  IN IF hits = {} THEN 0
     ELSE CHOOSE i \in hits : \A j \in hits : j <= i

\* createDOMNode: [d, node, el], el being the element with rendered saved.
\* diff: the same, node being the node diff returns
RECURSIVE CreateDOMNode(_, _)
RECURSIVE CreateKids(_, _, _, _, _)
RECURSIVE Diff(_, _, _, _)
RECURSIVE UpdateChildren(_, _, _, _)
RECURSIVE FirstPass(_, _, _, _, _, _)
RECURSIVE ChildCreated(_, _, _, _, _)

CreateKids(children, i, n, d, acc) ==
  IF i > Len(children) \/ d.error THEN [d |-> d, children |-> acc]
  ELSE IF ~IsObject(children[i])
    THEN LET made == CreateNode(d, "#textnode", children[i].value)
         IN CreateKids(children, i + 1, n, AppendChild(made, n, Newest(made)),
                       Append(acc, children[i]))
    ELSE ChildCreated(children, i, n, CreateDOMNode(children[i], d), acc)

\* the rest of createDOMNode's loop once child i was created as r
ChildCreated(children, i, n, r, acc) ==
  CreateKids(children, i + 1, n,
             IF r.d.error THEN r.d ELSE AppendChild(r.d, n, r.node),
             Append(acc, r.el))

\* what createDOMNode returns for an intrinsic element: made is the heap
\* after createElement, kids the result of the loop over the children
NodeCreated(el, made, n, kids) ==
  IF made.error THEN [d |-> made, node |-> NoNode, el |-> el]
  ELSE [d |-> kids.d, node |-> n,
        el |-> [el EXCEPT !.children =
                  kids.children \o
                    SubSeq(@, Len(kids.children) + 1, Len(@))]]

CreateDOMNode(el, d) ==
  IF IsFn(el.type)
    THEN LET r == CreateDOMNode(Output(el.type, el.props), CallComponent(d, el))
         IN [d |-> r.d, node |-> r.node, el |-> [el EXCEPT !.rendered = r.el]]
    ELSE LET made == CreateNode(d, el.type, "")
             n == Newest(made)
         IN NodeCreated(el, made, n,
                        CreateKids(el.children, 1, n,
                                   UpdateDOMProps(n, NoProps, el.props, made),
                                   <<>>))

\* the first pass of updateChildren: new child i is diffed against the old
\* child of its key or created.  kids0 are parentNode.childNodes as they were
\* when oldKeyMap was built
\* one round of the first pass: r is what diff or createDOMNode returned for
\* the new child, known tells whether oldKeyMap had its key
Visited(st, r, known, key, newChild) ==
  [d |-> r.d,
   newChildNodes |-> IF r.node # NoNode
                       THEN Append(st.newChildNodes, r.node)
                       ELSE st.newChildNodes,
   processed |-> IF known THEN st.processed \cup {key} ELSE st.processed,
   children |-> Append(st.children,
                       IF IsObject(newChild) THEN r.el ELSE newChild)]

FirstPass(i, st, oldChildren, newChildren, kids0, parent) ==
  IF i > Len(newChildren) \/ st.d.error THEN st
  ELSE
    LET newChild == Normalized(newChildren[i])
        key == KeyOf(newChild, i - 1)
        o == OldIndex(oldChildren, key)
    IN FirstPass(i + 1,
                 Visited(st,
                         IF o # 0
                           THEN Diff(oldChildren[o], newChild,
                                     IF o <= Len(kids0) THEN kids0[o]
                                                        ELSE NoNode, st.d)
                           ELSE CreateDOMNode(newChild, st.d),
                         o # 0, key, newChildren[i]),
                 oldChildren, newChildren, kids0, parent)

\* faulty variant: the second pass is left out
NoSecondPass(keys, d, oldChildren, kids0, parent) == d

\* the second pass: remove the nodes of the old keys that were not visited
RECURSIVE SecondPass(_, _, _, _, _)
SecondPass(keys, d, oldChildren, kids0, parent) ==
  IF keys = {} \/ d.error THEN d
  ELSE LET key == CHOOSE k \in keys : TRUE
           o == OldIndex(oldChildren, key)
           node == IF o <= Len(kids0) THEN kids0[o] ELSE NoNode
       IN SecondPass(keys \ {key},
                     IF node = NoNode THEN [d EXCEPT !.error = TRUE]
                     ELSE IF ParentOf(d.nodes, node) = parent
                       THEN RemoveChild(d, parent, node)
                     ELSE d,
                     oldChildren, kids0, parent)

\* faulty variant: the final pass is left out
NoFinalPass(i, d, newChildNodes, parent) == d

\* the final pass: put newChildNodes[i] at position i
RECURSIVE FinalPass(_, _, _, _)
FinalPass(i, d, newChildNodes, parent) ==
  IF i > Len(newChildNodes) THEN d
  ELSE LET childNode == newChildNodes[i]
           currentChild == ChildAt(d.nodes, parent, i - 1)
       IN FinalPass(i + 1,
                    IF childNode = currentChild THEN d
                    ELSE IF currentChild # NoNode
                      THEN InsertBefore(d, parent, childNode, currentChild)
                    ELSE AppendChild(d, parent, childNode),
                    newChildNodes, parent)

\* updateChildren(parentNode, oldChildren, newChildren): [d, children], the
\* new children with rendered saved
\* the children updateChildren's caller keeps: those the loop reached, with
\* rendered saved, then the rest of newChildren
Kept(r, newChildren) ==
  [d |-> r.d,
   children |-> r.children \o
                SubSeq(newChildren, Len(r.children) + 1, Len(newChildren))]

\* the final pass after the first pass returned first and the second second;
\* a pass that threw ends updateChildren
Reordered(first, second, parent) ==
  IF first.d.error THEN first.d
  ELSE IF second.error THEN second
  ELSE FinalPass(1, second, first.newChildNodes, parent)

\* the second and final passes after the first pass returned first
Removed(first, old, kids0, parent) ==
  Reordered(first,
            SecondPass({KeyOf(old[i], i - 1) : i \in 1..Len(old)}
                         \ first.processed,
                       first.d, old, kids0, parent),
            parent)

\* updateChildren once the first pass returned first
Passed(first, old, kids0, parent, newChildren) ==
  Kept([d |-> Removed(first, old, kids0, parent), children |-> first.children],
       newChildren)

UpdateChildren(parent, oldChildren, newChildren, d) ==
  IF oldChildren = <<>>
    THEN Kept(CreateKids(newChildren, 1, parent, d, <<>>), newChildren)
  ELSE IF newChildren = <<>>
    THEN [d |-> ClearChildren(d, parent), children |-> newChildren]
  ELSE
    LET old == [i \in 1..Len(oldChildren) |-> Normalized(oldChildren[i])]
        kids0 == d.nodes[parent].kids
    IN Passed(FirstPass(1, [d |-> d, newChildNodes |-> <<>>,
                            processed |-> {}, children |-> <<>>],
                        old, newChildren, kids0, parent),
              old, kids0, parent, newChildren)

\* faulty variant: two intrinsic tags always count as the same type
KindsDiffer(old, new) == IsFn(old.type) # IsFn(new.type)

\* diff's test for "different element types": typeof differs, or both types
\* are strings and the strings differ
DifferentTypes(old, new) ==
  \/ IsFn(old.type) # IsFn(new.type)
  \/ (~IsFn(old.type) /\ old.type # new.type)

\* diff(oldElement, newElement, dom); newElement is never null here, oldElement
\* is NoEl when a component's element has no rendered saved
\* diff without an old element: the node r holds is put before dom, then dom
\* is removed (dom.parentNode of a missing dom throws)
InsertedFor(r, dom) ==
  LET parent == ParentOf(r.d.nodes, dom)
  IN IF dom = NoNode THEN [r EXCEPT !.d.error = TRUE]
     ELSE IF r.d.error \/ parent = NoNode THEN r
     ELSE [r EXCEPT !.d = RemoveChild(InsertBefore(r.d, parent, r.node, dom),
                                      parent, dom)]

\* diff of two element types: the node r holds replaces dom
ReplacedBy(r, dom) ==
  LET parent == ParentOf(r.d.nodes, dom)
  IN IF dom = NoNode THEN [r EXCEPT !.d.error = TRUE]
     ELSE IF r.d.error \/ parent = NoNode THEN r
     ELSE [r EXCEPT !.d = ReplaceChild(r.d, parent, r.node, dom)]

\* diff of a component: r is the diff of its old and new output
Rerun(r, new) == [r EXCEPT !.el = [new EXCEPT !.rendered = r.el]]

\* diff of one intrinsic type: kids is what updateChildren returned
Patched(kids, new, dom) ==
  [d |-> kids.d, node |-> dom, el |-> [new EXCEPT !.children = kids.children]]

Diff(old, new, dom, d) ==
  IF old = NoEl THEN InsertedFor(CreateDOMNode(new, d), dom)
  ELSE IF DifferentTypes(old, new) THEN ReplacedBy(CreateDOMNode(new, d), dom)
  ELSE IF IsFn(new.type)
    THEN Rerun(Diff(old.rendered, Output(new.type, new.props), dom,
                    CallComponent(d, new)),
               new)
  ELSE IF dom = NoNode
    THEN [d |-> [d EXCEPT !.error = TRUE], node |-> NoNode, el |-> new]
  ELSE Patched(UpdateChildren(dom, old.children, new.children,
                              UpdateDOMProps(dom, old.props, new.props, d)),
               new, dom)

\* ---------------------------------------------------------------- render
\* mounted: null, and the renderRoot of a container nothing was rendered into
NoMounted == [node |-> NoNode]
NoRoot == [element |-> NoEl, mount |-> NoMounted]

\* the container passed to render
Container == 1

\* container.firstChild
FirstChild(ns) == ChildAt(ns, Container, 0)

\* render's first branch: renderRoot = { element, mount: mounted }
FirstRender(r, el) == [d |-> r.d, root |-> [element |-> el, mount |-> r.m]]

\* render's update branch: renderRoot.element = element unless diff threw
Update(r, root) ==
  [d |-> r.d,
   root |-> IF r.d.error THEN root ELSE [root EXCEPT !.element = r.el]]

\* render(element, container): [d, root, threw]
RenderResult(el, ns, root) ==
  IF root.element = NoEl
    THEN FirstRender(Mount(el, Container, ClearChildren(Dom(ns), Container)),
                     el)
  ELSE IF FirstChild(ns) # NoNode
    THEN Update(Diff(root.element, el, FirstChild(ns), Dom(ns)), root)
  ELSE FirstRender(Mount(el, Container, Dom(ns)), el)

\* the function render returns: unmount what renderRoot.mount holds
CleanupResult(ns, root) ==
  IF root.mount # NoMounted
    THEN [d |-> Unmount(root.mount, Dom(ns)), root |-> NoRoot]
    ELSE [d |-> Dom(ns), root |-> root]

\* the state after the modules are loaded
Loaded ==
  /\ nextTaskId = 1
  /\ taskQueue = [p \in Priorities |-> <<>>]
  /\ isScheduled = FALSE
  /\ currentFrameDeadline = 0
  /\ now = 0
  /\ microtasks = 0
  /\ rafs = 0
  /\ inDrain = FALSE
  /\ priority = HIGH
  /\ cur = NoTask
  /\ stack = <<>>
  /\ value \in [Signals \cup ResourceSignals -> {"0"}]
  /\ subscribers = [s \in Signals \cup ResourceSignals |-> <<>>]
  /\ currentEffect = NoEffect
  /\ nEffects = 0
  /\ ret = FALSE
  /\ reported = 0
  /\ escaped = FALSE
  /\ started = <<>>
  /\ drainSnap = {}
  /\ drainBase = 0
  /\ cancelled = {}
  /\ threw = {}
  /\ yielded = {}
  /\ handles = {}
  /\ disposed = {}
  /\ lastRead = [e \in Effects |-> {}]
  /\ batch = {}
  /\ batchRan = {}
  /\ ranInTask = <<>>
  /\ lastWrite = [sig |-> 0, changed |-> FALSE]
  /\ nodes = <<Node("div", "")>>
  /\ renderRoot = NoRoot
  /\ renders = 0
  /\ lastInput = NoEl
  /\ lastOps = {}
  /\ asked = {}
  /\ cleaned = {}
  /\ renderThrew = FALSE
  /\ fCalls = 0
  /\ memoReads = 0
  /\ memoRead = "undefined"
  /\ fetches = {}
  /\ nFetches = 0
  /\ settled = <<>>
  /\ hostCallbacks = {}
  /\ nCallbacks = 0
  /\ invoked = [c \in 1..MaxCallbacks |-> 0]

\* ------------------------------------------------------------- scheduler
\* faulty variant: unshift instead of push
EnqueueAtFront(q, task) == <<task>> \o q

\* taskQueue[priority].push(task)
Enqueue(q, task) == Append(q, task)

\* scheduleTask(callback, priority): the scheduler's part of the step
ScheduleTask(callback, p) ==
  /\ taskQueue' = [taskQueue EXCEPT
                     ![p] = Enqueue(@, [id |-> nextTaskId, callback |-> callback])]
  /\ nextTaskId' = nextTaskId + 1
  /\ IF ~isScheduled
       THEN /\ isScheduled' = TRUE
            /\ currentFrameDeadline' = now + frameLength
            /\ microtasks' = microtasks + 1
       ELSE UNCHANGED <<isScheduled, currentFrameDeadline, microtasks>>

\* queue.findIndex(task => task.id === taskId); 0 stands for -1
FindIndex(q, id) ==
  IF id \in Ids(q) THEN CHOOSE i \in 1..Len(q) : q[i].id = id ELSE 0

\* the first queue, in priority order, that holds the id; 3 if none does
FirstQueueWith(id) ==
  IF \E p \in Priorities : FindIndex(taskQueue[p], id) > 0
    THEN CHOOSE p \in Priorities :
           /\ FindIndex(taskQueue[p], id) > 0
           /\ \A r \in Priorities : r < p => FindIndex(taskQueue[r], id) = 0
    ELSE 3

\* faulty variant: the splice is forgotten
CancelLeavesTask(id) == taskQueue

\* cancelTask(taskId): the queues after the call
CancelQueues(id) ==
  LET p == FirstQueueWith(id) IN
  IF p \in Priorities
    THEN [taskQueue EXCEPT ![p] = RemoveAt(@, FindIndex(@, id))]
    ELSE taskQueue

\* cancelTask(taskId): the value returned
CancelReturns(id) == FirstQueueWith(id) \in Priorities

\* ------------------------------------------------------ user-code actions
\* user code calls scheduleTask(cb, p) with a callback of its own
UserSchedule(p) ==
  /\ InUserCode
  /\ nextTaskId <= MaxTasks
  /\ ScheduleTask(UserCallback, p)
  /\ UNCHANGED <<now, stack, loopVars, sigVars, escaped, histVars>>

\* user code calls cancelTask(id)
UserCancel(id) ==
  /\ InUserCode
  /\ taskQueue' = CancelQueues(id)
  /\ ret' = IF Tracks("cancel") THEN CancelReturns(id) ELSE ret
  /\ cancelled' = IF CancelReturns(id) /\ Tracks("cancel")
                    THEN cancelled \cup {id} ELSE cancelled
  /\ UNCHANGED <<nextTaskId, isScheduled, currentFrameDeadline, microtasks,
                 now, stack, loopVars, sigVars, escaped, threw, yielded,
                 handles, disposed, lastRead, batch, batchRan, ranInTask,
                 lastWrite, track, extVars>>

\* the host starts a macrotask of user code (an event handler, a timer)
BeginTurn ==
  /\ Idle
  /\ microtasks = 0
  /\ stack' = <<Frame("turn", NoEffect, <<>>, "host")>>
  /\ batch' = {}
  /\ batchRan' = {}
  /\ UNCHANGED <<schedVars, now, loopVars, sigVars, escaped, ret, cancelled,
                 threw, yielded, handles, disposed, lastRead, ranInTask,
                 lastWrite, track, extVars>>

\* time passes while anything runs or waits
Tick ==
  /\ now + frameLength <= MaxTime
  /\ now' = now + frameLength
  /\ UNCHANGED <<schedVars, stack, loopVars, sigVars, escaped, histVars>>

\* ------------------------------------------------------- processTaskQueue
\* faulty variant: the flag is left as it is
FlagKept == isScheduled

\* isScheduled = false, at the entry of processTaskQueue
FlagAtEntry == FALSE

\* the host runs a queued processTaskQueue microtask: the function's entry
ProcessTaskQueue ==
  /\ Idle
  /\ microtasks > 0
  /\ microtasks' = microtasks - 1
  /\ isScheduled' = FlagAtEntry
  /\ priority' = HIGH
  /\ inDrain' = TRUE
  /\ drainSnap' = IF Tracks("snap") THEN QueuedIds ELSE drainSnap
  /\ drainBase' = Len(started)
  /\ UNCHANGED <<nextTaskId, taskQueue, currentFrameDeadline, now, rafs,
                 cur, reported, started, stack, sigVars, escaped, histVars>>

\* faulty variant: the outer loop runs from LOW down to HIGH
LastLevel(p) ==
  IF \E r \in Priorities : taskQueue[r] # <<>>
    THEN CHOOSE r \in Priorities :
           /\ taskQueue[r] # <<>>
           /\ \A x \in Priorities : x > r => taskQueue[x] = <<>>
    ELSE 3

\* for (priority...) while (queue.length > 0): the priority level at which the
\* loops, standing at level p, find their next task; 3 when every queue from p
\* on is empty
NextLevel(p) ==
  IF \E r \in Priorities : r >= p /\ taskQueue[r] # <<>>
    THEN CHOOSE r \in Priorities :
           /\ r >= p /\ taskQueue[r] # <<>>
           /\ \A x \in Priorities : (x >= p /\ x < r) => taskQueue[x] = <<>>
    ELSE 3

\* faulty variant: the deadline is checked at every level
DeadlineForAll(p) == now >= currentFrameDeadline

\* priority !== Priority.HIGH && performance.now() >= currentFrameDeadline
OutOfTime(p) == p # HIGH /\ now >= currentFrameDeadline

\* queue.shift(): the task taken
Shift(q) == Head(q)

\* queue.shift(): the queue left
Shifted(q, task) == RemoveAt(q, FindIndex(q, task.id))

\* the loops ran out of tasks: processTaskQueue returns
DrainFinish ==
  /\ inDrain /\ stack = <<>>
  /\ NextLevel(priority) = 3
  /\ inDrain' = FALSE
  /\ priority' = HIGH          \* the local variable dies with the call
  /\ UNCHANGED <<schedVars, now, rafs, cur, reported, started, drainSnap,
                 drainBase, stack, sigVars, escaped, histVars>>

\* out of time: schedule a continuation on the next animation frame and return
DrainYield ==
  /\ inDrain /\ stack = <<>>
  /\ NextLevel(priority) \in Priorities
  /\ OutOfTime(NextLevel(priority))
  /\ isScheduled' = TRUE
  /\ rafs' = rafs + 1
  /\ inDrain' = FALSE
  /\ priority' = HIGH          \* the local variable dies with the call
  /\ yielded' = IF Tracks("yield")
                  THEN yielded \cup {Head(taskQueue[NextLevel(priority)]).id}
                  ELSE yielded
  /\ UNCHANGED <<nextTaskId, taskQueue, currentFrameDeadline, microtasks,
                 now, cur, reported, started, drainSnap, drainBase, stack,
                 sigVars, escaped, ret, cancelled, threw, handles, disposed,
                 lastRead, batch, batchRan, ranInTask, lastWrite, track, extVars>>

\* const task = queue.shift(); task.callback() is entered
DrainExecute ==
  /\ inDrain /\ stack = <<>>
  /\ NextLevel(priority) \in Priorities
  /\ ~OutOfTime(NextLevel(priority))
  /\ LET p == NextLevel(priority)
         task == Shift(taskQueue[p])
     IN /\ taskQueue' = [taskQueue EXCEPT ![p] = Shifted(@, task)]
        /\ priority' = p
        /\ cur' = task
        /\ started' = IF Tracks("log")
                         THEN Append(started, [id |-> task.id, pri |-> p])
                         ELSE started
        /\ stack' = IF task.callback.kind = "notify"
                      \* const subscribers = Array.from(signal.subscribers)
                      THEN <<Frame("notify", NoEffect,
                                   subscribers[task.callback.sig], "drain")>>
                      ELSE <<Frame("task", NoEffect, <<>>, "drain")>>
        /\ ranInTask' = <<>>
  /\ UNCHANGED <<nextTaskId, isScheduled, currentFrameDeadline, microtasks,
                 now, rafs, inDrain, reported, drainSnap, drainBase, sigVars,
                 escaped, ret, cancelled, threw, yielded, handles, disposed,
                 lastRead, batch, batchRan, lastWrite, track, extVars>>

\* requestAnimationFrame(() => { currentFrameDeadline = ...; queueMicrotask(...) })
Continuation ==
  /\ Idle
  /\ microtasks = 0
  /\ rafs > 0
  /\ rafs' = rafs - 1
  /\ currentFrameDeadline' = now + frameLength
  /\ microtasks' = microtasks + 1
  /\ UNCHANGED <<nextTaskId, taskQueue, isScheduled, now, inDrain,
                 priority, cur, reported, started, drainSnap, drainBase, stack,
                 sigVars, escaped, histVars>>

\* faulty variant: task.callback() is called outside any try
NoCatch == FALSE

\* try { task.callback() } catch (error) { console.error(...) }: TRUE says the
\* call is inside a try whose catch swallows the exception
CatchesTaskError == TRUE

\* ------------------------------------------------- returning and throwing
\* the macrotask of user code returns to the host
TurnEnd ==
  /\ stack # <<>> /\ Top.kind = "turn"
  /\ stack' = <<>>
  /\ UNCHANGED <<schedVars, now, loopVars, sigVars, escaped, histVars>>

\* a task's own callback returns to processTaskQueue
TaskReturn ==
  /\ stack # <<>> /\ Top.kind = "task"
  /\ stack' = <<>>
  /\ cur' = NoTask
  /\ UNCHANGED <<schedVars, now, rafs, inDrain, priority, reported, started,
                 drainSnap, drainBase, sigVars, escaped, histVars>>

\* fn() returns inside effect(): finally { currentEffect = null }; a
\* createEffect call then returns the effect itself to its caller
EffectReturn ==
  /\ stack # <<>> /\ Top.kind = "effect"
  /\ currentEffect' = NoEffect
  /\ handles' = IF Top.via = "create" /\ Tracks("dispose")
                  THEN handles \cup {Top.eff} ELSE handles
  /\ stack' = Pop(stack)
  /\ UNCHANGED <<schedVars, now, loopVars, value, subscribers, nEffects,
                 escaped, ret, cancelled, threw, yielded, disposed, lastRead,
                 batch, batchRan, ranInTask, lastWrite, track, extVars>>

\* user code throws and catches nothing itself: the exception unwinds every
\* frame (each effect() on the way runs its finally) down to processTaskQueue's
\* try/catch, or to the host when the code runs in a turn
UserThrow ==
  /\ InUserCode
  /\ stack' = <<>>
  /\ currentEffect' = IF \E i \in 1..Len(stack) : stack[i].kind = "effect"
                        THEN NoEffect ELSE currentEffect
  /\ IF stack[1].kind = "turn"
       THEN /\ escaped' = (escaped \/ Tracks("throws"))
            /\ UNCHANGED <<cur, reported, inDrain, threw>>
       ELSE /\ cur' = NoTask
            /\ threw' = IF Tracks("throws") THEN threw \cup {cur.id} ELSE threw
            /\ IF CatchesTaskError
                 THEN /\ reported' = IF Tracks("throws") THEN reported + 1
                                                          ELSE reported
                      /\ UNCHANGED <<escaped, inDrain>>
                 ELSE /\ escaped' = (escaped \/ Tracks("throws"))
                      /\ inDrain' = FALSE
                      /\ UNCHANGED reported
  /\ UNCHANGED <<schedVars, now, rafs, priority, started, drainSnap, drainBase,
                 value, subscribers, nEffects, ret, cancelled, yielded, handles,
                 disposed, lastRead, batch, batchRan, ranInTask, lastWrite,
                 track, extVars>>

\* ------------------------------------------------------------- reactivity
\* effect(): currentEffect = effect; try { fn() ...: fn is entered
EnterEffect(e, via) ==
  /\ currentEffect' = e
  /\ lastRead' = [lastRead EXCEPT ![e] = {}]
  /\ taskQueue' = ForgetInQueues(taskQueue, e, Signals)
  /\ stack' = Append(stack, Frame("effect", e, <<>>, via))

\* read(): if (currentEffect) signal.subscribers.add(currentEffect)
Subscribe(subs) ==
  IF currentEffect # NoEffect THEN SetAdd(subs, currentEffect) ELSE subs

\* user code calls read() of signal s
Read(s) ==
  /\ InUserCode
  /\ subscribers' = [subscribers EXCEPT ![s] = Subscribe(@)]
  /\ lastRead' = IF Top.kind = "effect" /\ Tracks("reads")
                   THEN [lastRead EXCEPT ![Top.eff] = @ \cup {s}]
                   ELSE lastRead
  /\ taskQueue' = IF Top.kind = "effect"
                    THEN ForgetInQueues(taskQueue, Top.eff, {s})
                    ELSE taskQueue
  /\ UNCHANGED <<nextTaskId, isScheduled, currentFrameDeadline, microtasks,
                 now, loopVars, stack, value, currentEffect,
                 nEffects, escaped, ret, cancelled, threw, yielded, handles,
                 disposed, batch, batchRan, ranInTask, lastWrite, track, extVars>>

\* an updater function passed to write
Apply(f, prev) ==
  IF f = "flip" THEN (IF prev = "0" THEN "1" ELSE IF prev = "1" THEN "0" ELSE NaN)
  ELSE prev

\* typeof newValue === 'function' ? newValue(signal.value) : newValue
Resolve(newValue, prev) ==
  IF newValue \in Updaters THEN Apply(newValue, prev) ELSE newValue

\* faulty variant: the comparison is dropped and every write notifies
AlwaysChanged(stored, resolved) == TRUE

\* signal.value !== resolvedValue
Changed(stored, resolved) == stored # resolved \/ stored = NaN

\* the priority write passes to scheduleTask
NotifyPriority == NORMAL

\* user code calls write(newValue) of signal s
Write(s, newValue) ==
  /\ InUserCode
  /\ LET resolved == Resolve(newValue, value[s]) IN
     IF Changed(value[s], resolved)
       THEN /\ nextTaskId <= MaxNotify
            /\ value' = [value EXCEPT ![s] = resolved]
            /\ ScheduleTask(
                 Callback("notify", s,
                          IF Tracks("subs") THEN Range(subscribers[s]) ELSE {},
                          IF Tracks("reads")
                            THEN {e \in Effects :
                                    /\ s \notin lastRead[e]
                                    /\ \A i \in 1..Len(stack) : stack[i].eff # e}
                            ELSE {}),
                 NotifyPriority)
            /\ batch' = IF stack[1].kind = "turn" /\ Tracks("batch")
                          THEN batch \cup {nextTaskId} ELSE batch
            /\ lastWrite' = IF Tracks("writes")
                              THEN [sig |-> s, changed |-> TRUE] ELSE lastWrite
       ELSE /\ lastWrite' = IF Tracks("writes")
                              THEN [sig |-> s, changed |-> FALSE] ELSE lastWrite
            /\ UNCHANGED <<schedVars, value, batch>>
  /\ UNCHANGED <<now, loopVars, stack, subscribers, currentEffect, nEffects,
                 escaped, ret, cancelled, threw, yielded, handles, disposed,
                 lastRead, batchRan, ranInTask, track, extVars>>

\* user code calls createEffect(fn): effect() runs at once
CreateEffectWithin(depth) ==
  /\ InUserCode
  /\ nEffects < MaxEffects
  /\ Len(stack) < depth
  /\ nEffects' = nEffects + 1
  /\ EnterEffect(nEffects + 1, "create")
  /\ UNCHANGED <<nextTaskId, isScheduled, currentFrameDeadline, microtasks,
                 now, loopVars, value, subscribers, escaped, ret,
                 cancelled, threw, yielded, handles, disposed, batch, batchRan,
                 ranInTask, lastWrite, track, extVars>>

CreateEffect == CreateEffectWithin(MaxDepth)

\* the body of a running effect calls createEffect(fn)
NestedEffect ==
  /\ stack # <<>> /\ Top.kind = "effect"
  /\ CreateEffectWithin(MaxNest)

\* user code calls the function createEffect returned for effect e: the
\* function is effect itself (return effect), so the call runs the effect
CallDisposer(e) ==
  /\ InUserCode
  /\ e \in handles
  /\ Len(stack) < MaxDepth
  /\ disposed' = disposed \cup {e}
  /\ EnterEffect(e, "call")
  /\ UNCHANGED <<nextTaskId, isScheduled, currentFrameDeadline, microtasks,
                 now, loopVars, value, subscribers, nEffects,
                 escaped, ret, cancelled, threw, yielded, handles, batch,
                 batchRan, ranInTask, lastWrite, track, extVars>>

\* the callback write scheduled: for (const subscriber of subscribers)
\* subscriber() calls the next subscriber of the copy
NotifyNext ==
  /\ stack # <<>> /\ Top.kind = "notify"
  /\ Top.pending # <<>>
  /\ LET e == Head(Top.pending) IN
       /\ currentEffect' = e
       /\ lastRead' = [lastRead EXCEPT ![e] = {}]
       /\ taskQueue' = ForgetInQueues(taskQueue, e, Signals)
       /\ stack' = Append(ReplaceTop(stack, [Top EXCEPT !.pending = Tail(@)]),
                          Frame("effect", e, <<>>, "notify"))
       /\ ranInTask' = IF Tracks("subs") THEN Append(ranInTask, e)
                                          ELSE ranInTask
       /\ batchRan' = IF cur.id \in batch /\ e \in cur.callback.subs
                        THEN batchRan \cup {<<e, cur.callback.sig>>}
                        ELSE batchRan
  /\ UNCHANGED <<nextTaskId, isScheduled, currentFrameDeadline, microtasks,
                 now, loopVars, value, subscribers, nEffects,
                 escaped, ret, cancelled, threw, yielded, handles, disposed,
                 batch, lastWrite, track, extVars>>

\* the callback write scheduled has called every subscriber and returns
NotifyDone ==
  /\ stack # <<>> /\ Top.kind = "notify"
  /\ Top.pending = <<>>
  /\ stack' = <<>>
  /\ cur' = NoTask
  /\ UNCHANGED <<schedVars, now, rafs, inDrain, priority, reported, started,
                 drainSnap, drainBase, sigVars, escaped, histVars>>

\* ------------------------------------------------------------ rendering
\* faulty variant: the callback is called before the registering call returns
CalledAtOnce(h, c, api, stage) ==
  [h EXCEPT !.calls[c] = @ + 1]

\* requestAnimationFrame(cb), setTimeout(cb, ms), requestIdleCallback(cb): the
\* host keeps the callback and the call returns; h is [held, calls].  drain is
\* history: a call of processTaskQueue was on the stack
HostKeeps(h, c, api, stage) ==
  [h EXCEPT !.held = @ \cup {[id |-> c, api |-> api, stage |-> stage,
                              drain |-> inDrain]}]

\* what the host holds and what it has called so far, and its storing
Host == [held |-> hostCallbacks, calls |-> invoked]

HostStore(h) ==
  /\ hostCallbacks' = h.held
  /\ invoked' = h.calls

\* the afterLayout calls a diff made for the refs of the nodes in refs; c
\* callbacks were registered before
RECURSIVE AfterLayouts(_, _, _)
AfterLayouts(h, refs, c) ==
  IF refs = <<>> THEN h
  ELSE AfterLayouts(HostKeeps(h, c + 1, "afterLayout", "frame"), Tail(refs),
                    c + 1)

\* what a render call or a cleanup call leaves behind
Rendered(r, el) ==
  /\ nodes' = r.d.nodes
  /\ renderRoot' = r.root
  /\ lastOps' = IF Tracks("ops") THEN r.d.ops ELSE lastOps
  /\ lastInput' = IF ~Tracks("ops") THEN lastInput
                  ELSE IF r.d.error THEN NoEl ELSE el
  /\ asked' = IF Tracks("cleanups") THEN asked \cup r.d.asked ELSE asked
  /\ cleaned' = IF Tracks("cleanups") THEN cleaned \cup Range(r.d.ran) ELSE cleaned
  /\ renderThrew' = (renderThrew \/ (r.d.error /\ Tracks("errors")))
  /\ nCallbacks + Len(r.d.deferred) <= MaxCallbacks
  /\ nCallbacks' = nCallbacks + Len(r.d.deferred)
  /\ HostStore(AfterLayouts(Host, r.d.deferred, nCallbacks))

\* user code calls render(el, container) and goes on (it catches what the
\* call throws)
Render(el) ==
  /\ InUserCode
  /\ renders < MaxRenders
  /\ renders' = renders + 1
  /\ Rendered(RenderResult(el, nodes, renderRoot), el)
  /\ UNCHANGED <<coreVars, memoVars, resVars>>

\* user code calls the function a render call returned
CallCleanup ==
  /\ InUserCode
  /\ renders > 0
  /\ Rendered(CleanupResult(nodes, renderRoot), NoEl)
  /\ UNCHANGED <<coreVars, renders, memoVars, resVars>>

\* ------------------------------------------------------------ view effect
\* the signal the view shows
count == 1

\* <p>{count()}</p>
View(v) == El("p", "", NoProps, <<Prim(v)>>)

\* top-level user code calls createEffect(() => render(<p>{count()}</p>, container))
CreateView ==
  /\ stack # <<>> /\ Top.kind = "turn"
  /\ CreateEffect

\* top-level user code calls write(newValue) of signal s
TurnWrite(s, newValue) ==
  /\ stack # <<>> /\ Top.kind = "turn"
  /\ Write(s, newValue)

\* the body of the view effect runs and returns: count() subscribes the
\* effect, render is called with the value read, effect()'s finally resets
\* currentEffect
ViewRun ==
  /\ stack # <<>> /\ Top.kind = "effect"
  /\ renders < MaxRenders
  /\ subscribers' = [subscribers EXCEPT ![count] = Subscribe(@)]
  /\ taskQueue' = ForgetInQueues(taskQueue, Top.eff, {count})
  /\ renders' = renders + 1
  /\ Rendered(RenderResult(View(value[count]), nodes, renderRoot),
              View(value[count]))
  /\ currentEffect' = NoEffect
  /\ stack' = Pop(stack)
  /\ UNCHANGED <<nextTaskId, isScheduled, currentFrameDeadline, microtasks,
                 now, loopVars, value, nEffects, escaped, ret, cancelled,
                 threw, yielded, handles, disposed, lastRead, batch, batchRan,
                 ranInTask, lastWrite, track, memoVars, resVars>>

\* ------------------------------------------------------------------ memo
\* scheduleTask(callback, priority) called in the middle of a library
\* function: st holds the signal values and the scheduler's variables
Scheduled(st, callback, p) ==
  [st EXCEPT
     !.taskQueue[p] = Enqueue(@, [id |-> st.nextTaskId, callback |-> callback]),
     !.nextTaskId = @ + 1,
     !.isScheduled = TRUE,
     !.currentFrameDeadline = IF st.isScheduled THEN @ ELSE now + frameLength,
     !.microtasks = IF st.isScheduled THEN @ ELSE @ + 1]

\* write(newValue) of signal s called in the middle of a library function
Written(st, s, newValue) ==
  LET resolved == Resolve(newValue, st.value[s]) IN
  IF Changed(st.value[s], resolved)
    THEN Scheduled([st EXCEPT !.value[s] = resolved],
                   Callback("notify", s,
                            IF Tracks("subs") THEN Range(subscribers[s]) ELSE {},
                            {}),
                   NotifyPriority)
    ELSE st

\* the state the calls above work on, and its storing
Current ==
  [value |-> value, taskQueue |-> taskQueue, nextTaskId |-> nextTaskId,
   isScheduled |-> isScheduled, currentFrameDeadline |-> currentFrameDeadline,
   microtasks |-> microtasks]

Store(st) ==
  /\ value' = st.value
  /\ taskQueue' = st.taskQueue
  /\ nextTaskId' = st.nextTaskId
  /\ isScheduled' = st.isScheduled
  /\ currentFrameDeadline' = st.currentFrameDeadline
  /\ microtasks' = st.microtasks

\* the signal createMemo creates
memo == 2

\* the function given to createMemo: it reads count
F(v) == "f(" \o v \o ")"

\* top-level user code calls createMemo(f): createSignal(f()) calls f outside
\* any effect, createEffect runs the effect at once, which calls f again,
\* subscribes to what f reads and writes the result to the memo's signal
CreateMemoAs(e) ==
  /\ stack # <<>> /\ Top.kind = "turn"
  /\ nEffects = e - 1
  /\ nEffects' = e
  /\ fCalls' = fCalls + 2
  /\ subscribers' = [subscribers EXCEPT ![count] = SetAdd(@, e), ![memo] = <<>>]
  /\ Store(Written([Current EXCEPT !.value[memo] = F(value[count])],
                   memo, F(value[count])))
  /\ UNCHANGED <<now, loopVars, stack, currentEffect, escaped, userHist, domVars, memoReads, memoRead,
                 resVars, layoutVars>>

\* the memo is the first effect the program creates
CreateMemo == CreateMemoAs(1)

\* the effect createMemo created runs and returns: setValue(f())
MemoRunOf(e) ==
  /\ stack # <<>> /\ Top.kind = "effect" /\ Top.eff = e
  /\ Changed(value[memo], F(value[count])) => nextTaskId <= MaxNotify
  /\ fCalls' = fCalls + 1
  /\ subscribers' = [subscribers EXCEPT ![count] = SetAdd(@, Top.eff)]
  /\ Store(Written(Current, memo, F(value[count])))
  /\ currentEffect' = NoEffect
  /\ stack' = Pop(stack)
  /\ UNCHANGED <<now, loopVars, nEffects, escaped, userHist, domVars, memoReads, memoRead,
                 resVars, layoutVars>>

MemoRun == MemoRunOf(1)

\* an effect that reads count is created by top-level code before the memo
SiblingEffect ==
  /\ stack # <<>> /\ Top.kind = "turn"
  /\ nEffects = 0
  /\ CreateEffect

\* the body of that effect is running: it reads count, returns, or throws
InSibling == stack # <<>> /\ Top.kind = "effect" /\ Top.eff = 1

SiblingRead == InSibling /\ Read(count)

SiblingReturn == InSibling /\ EffectReturn

SiblingThrow == InSibling /\ UserThrow

\* top-level user code reads the memo: the read function of its signal
ReadMemo ==
  /\ stack # <<>> /\ Top.kind = "turn"
  /\ nEffects > 0
  /\ memoReads < MaxReads
  /\ memoReads' = memoReads + 1
  /\ memoRead' = value[memo]
  /\ UNCHANGED <<coreVars, domVars, fCalls, resVars, layoutVars>>

\* -------------------------------------------------------------- resource
\* the signal source() reads
source == 1

\* what the promise of fetch f is fulfilled with or rejected with: fetcher's
\* answer depends on the key and on when it was asked
Result(f) == "r" \o ToString(f.id) \o "(" \o f.key \o ")"
Rejection(f) == "Error" \o ToString(f.id)

\* fetchData up to its await: setLoading(true); setError(null);
\* fetcher(source())
FetchStarted(st) == Written(Written(st, loading, "true"), error, "null")

\* the promise fetcher(source()) returned
NewFetch == [id |-> nFetches + 1, key |-> value[source]]

\* faulty variant: setData only for the fetch started last
OnFulfilledIfLatest(st, f) ==
  IF f.id = nFetches THEN Written(st, data, Result(f)) ELSE st

\* fetchData after its await: setData(result)
OnFulfilled(st, f) == Written(st, data, Result(f))

\* fetchData's catch: setError(err instanceof Error ? err : new Error(...))
OnRejected(st, f) == Written(st, error, Rejection(f))

\* try { await fetcher(...) } catch (err) { setError(...) }: TRUE says the
\* await is inside a try whose catch takes the rejection
CatchesRejection == TRUE

\* faulty variant: no finally block
NoFinally(st) == st

\* fetchData's finally: setLoading(false)
Finally(st) == Written(st, loading, "false")

\* top-level user code calls createResource(source, fetcher): the three
\* signals are created, createEffect runs the effect at once, which reads
\* source and calls fetchData
CreateResource ==
  /\ stack # <<>> /\ Top.kind = "turn"
  /\ nEffects = 0
  /\ nFetches < MaxFetches
  /\ nEffects' = 1
  /\ subscribers' = [s \in DOMAIN subscribers |->
                       IF s \in ResourceSignals THEN <<>>
                       ELSE IF s = source THEN SetAdd(subscribers[s], 1)
                       ELSE subscribers[s]]
  /\ Store(FetchStarted(
             [Current EXCEPT !.value[data] = "undefined",
                             !.value[loading] = "true",
                             !.value[error] = "null"]))
  /\ fetches' = fetches \cup {NewFetch}
  /\ nFetches' = nFetches + 1
  /\ UNCHANGED <<now, loopVars, stack, currentEffect, escaped, userHist,
                 domVars, memoVars, layoutVars, settled>>

\* the effect createResource created runs and returns: source(); fetchData()
ResourceRun ==
  /\ stack # <<>> /\ Top.kind = "effect"
  /\ nFetches < MaxFetches
  /\ subscribers' = [subscribers EXCEPT ![source] = SetAdd(@, Top.eff)]
  /\ Store(FetchStarted(Current))
  /\ fetches' = fetches \cup {NewFetch}
  /\ nFetches' = nFetches + 1
  /\ currentEffect' = NoEffect
  /\ stack' = Pop(stack)
  /\ UNCHANGED <<now, loopVars, nEffects, escaped, userHist, domVars,
                 memoVars, layoutVars, settled>>

\* top-level user code calls refetch(), which is fetchData
Refetch ==
  /\ stack # <<>> /\ Top.kind = "turn"
  /\ nEffects > 0
  /\ nFetches < MaxFetches
  /\ Store(FetchStarted(Current))
  /\ fetches' = fetches \cup {NewFetch}
  /\ nFetches' = nFetches + 1
  /\ UNCHANGED <<now, loopVars, stack, subscribers, currentEffect, nEffects,
                 escaped, userHist, domVars, memoVars, layoutVars, settled>>

\* the promise of fetch f is settled and the host runs the rest of fetchData
Settle(f, ok) ==
  /\ Idle
  /\ microtasks = 0
  /\ f \in fetches
  /\ Store(Finally(IF ok THEN OnFulfilled(Current, f)
                   ELSE IF CatchesRejection THEN OnRejected(Current, f)
                   ELSE Current))
  /\ escaped' = (escaped \/ (~ok /\ ~CatchesRejection))
  /\ fetches' = fetches \ {f}
  /\ settled' = Append(settled, [id |-> f.id, key |-> f.key, ok |-> ok])
  /\ UNCHANGED <<now, loopVars, stack, subscribers, currentEffect, nEffects,
                 userHist, domVars, memoVars, layoutVars, nFetches>>

\* ---------------------------------------------------- deferred callbacks
\* user code calls afterLayout(callback)
AfterLayout ==
  /\ InUserCode
  /\ nCallbacks < MaxCallbacks
  /\ nCallbacks' = nCallbacks + 1
  /\ HostStore(HostKeeps(Host, nCallbacks + 1, "afterLayout", "frame"))
  /\ UNCHANGED <<coreVars, domVars, memoVars, resVars>>

\* user code calls afterPaint(callback)
AfterPaint ==
  /\ InUserCode
  /\ nCallbacks < MaxCallbacks
  /\ nCallbacks' = nCallbacks + 1
  /\ HostStore(HostKeeps(Host, nCallbacks + 1, "afterPaint", "frame"))
  /\ UNCHANGED <<coreVars, domVars, memoVars, resVars>>

\* user code calls scheduleIdle(callback); supported is
\* typeof requestIdleCallback === 'function'
ScheduleIdle(supported) ==
  /\ InUserCode
  /\ nCallbacks < MaxCallbacks
  /\ nCallbacks' = nCallbacks + 1
  /\ HostStore(HostKeeps(Host, nCallbacks + 1, "scheduleIdle",
                         IF supported THEN "idle" ELSE "timer"))
  /\ UNCHANGED <<coreVars, domVars, memoVars, resVars>>

\* the host calls the callback of h: a macrotask of user code begins
CallbackCalled(h) ==
  /\ hostCallbacks' = hostCallbacks \ {h}
  /\ invoked' = [invoked EXCEPT ![h.id] = @ + 1]
  /\ stack' = <<Frame("turn", NoEffect, <<>>, "host")>>
  /\ batch' = {}
  /\ batchRan' = {}
  /\ UNCHANGED <<schedVars, now, loopVars, sigVars, escaped, ret, cancelled,
                 threw, yielded, handles, disposed, lastRead, ranInTask,
                 lastWrite, track, domVars, memoVars, resVars, nCallbacks>>

\* an animation frame: the arrow function afterLayout or afterPaint gave to
\* requestAnimationFrame runs.  afterLayout's calls the callback, afterPaint's
\* calls setTimeout(callback, 0)
AnimationFrame(h) ==
  /\ Idle
  /\ microtasks = 0
  /\ h \in hostCallbacks
  /\ h.stage = "frame"
  /\ IF h.api = "afterLayout"
       THEN CallbackCalled(h)
       ELSE /\ HostStore([Host EXCEPT
                          !.held = (@ \ {h}) \cup {[h EXCEPT !.stage = "timer"]}])
            /\ UNCHANGED <<coreVars, domVars, memoVars, resVars, nCallbacks>>

\* a timer expires or the host is idle: the callback is called
TimerOrIdle(h) ==
  /\ Idle
  /\ microtasks = 0
  /\ h \in hostCallbacks
  /\ h.stage \in {"timer", "idle"}
  /\ CallbackCalled(h)

\* ------------------------------------------------------- rendered inputs
Keys == {"a", "b", "c"}

\* the sequences of distinct keys
KeyLists ==
  {s \in UNION {[1..n -> Keys] : n \in 0..3} :
     \A i \in DOMAIN s : \A j \in DOMAIN s : i # j => s[i] # s[j]}

\* <li key=k>k</li>
Item(k) == El("li", k, NoProps, <<Prim(k)>>)

\* <ul>{keys.map(k => <li key=k>k</li>)}</ul>
List(keys) == El("ul", "", NoProps, [i \in DOMAIN keys |-> Item(keys[i])])

KeyedTrees == {List(s) : s \in KeyLists}

\* <T key=k/>: a component whose body calls onUnmount
TItem(k) == El("T", k, NoProps, <<>>)

\* a keyed list in which the child keyed b is a component
MixedList(keys) ==
  El("ul", "", NoProps,
     [i \in DOMAIN keys |-> IF keys[i] = "b" THEN TItem("b") ELSE Item(keys[i])])

MixedTrees == {MixedList(s) : s \in KeyLists}

\* <A/>, <B/>, and a <div> around nothing or around one of them
CompTrees ==
  {El(c, "", NoProps, <<>>) : c \in {"A", "B"}}
    \cup {El("div", "", NoProps, <<>>)}
    \cup {El("div", "", NoProps, <<El(c, "", NoProps, <<>>)>>) : c \in {"A", "B"}}

\* the props of the rendered <div>s: f is a function
SomeProps ==
  {NoProps, [id |-> "x"], [id |-> "y"], [onclick |-> "f"],
   [id |-> "x", onclick |-> "f"]}

\* <div {...props}/> and <div {...props}>t</div>
PropTrees ==
  {El("div", "", props, kids) : props \in SomeProps, kids \in {<<>>, <<Prim("t")>>}}

\* the lists of distinct keys out of a and b
ShortKeyLists == {s \in KeyLists : Range(s) \subseteq {"a", "b"}}

\* a keyed list whose children are <li> or <p> elements
TagList(keys, tags) ==
  El("ul", "", NoProps,
     [i \in DOMAIN keys |-> El(tags[i], keys[i], NoProps, <<Prim(keys[i])>>)])

TagTrees ==
  UNION {{TagList(s, tags) : tags \in [DOMAIN s -> {"li", "p"}]} :
           s \in ShortKeyLists}

\* a list of <li> and <p> children without keys
UnkeyedList(tags) ==
  El("ul", "", NoProps, [i \in DOMAIN tags |-> El(tags[i], "", NoProps, <<>>)])

\* keyed lists of no, one or three children and unkeyed lists of up to two
ListTrees ==
  {List(s) : s \in {k \in KeyLists : Len(k) # 2}}
    \cup {UnkeyedList(t) : t \in UNION {[1..n -> {"li", "p"}] : n \in 0..2}}

\* <p>{...}</p> with up to two string children
TextTrees ==
  {El("p", "", NoProps, [i \in DOMAIN s |-> Prim(s[i])]) :
     s \in UNION {[1..n -> {"x", "y"}] : n \in 0..2}}

\* <div ref={f}/>, <div/>, <div><p ref={f}/></div>: f is a function
RefTrees ==
  {El("div", "", [ref |-> "f"], <<>>),
   El("div", "", NoProps, <<>>),
   El("div", "", NoProps, <<El("p", "", [ref |-> "f"], <<>>)>>)}

\* the values of an onClick prop: two functions, null, false, or none
HandlerProps ==
  {NoProps, [onclick |-> "f"], [onclick |-> "g"], [onclick |-> "null"],
   [onclick |-> "false"]}

\* <div onClick=.../> and <div onClick=...><p onClick=.../></div>
HandlerTrees ==
  {El("div", "", props, <<>>) : props \in HandlerProps}
    \cup {El("div", "", props, <<El("p", "", inner, <<>>)>>) :
            props \in HandlerProps, inner \in {NoProps, [onclick |-> "f"],
                                               [onclick |-> "g"]}}

\* ---------------------------------------------------------- specifications
SchedulerNext ==
  \/ BeginTurn
  \/ TurnEnd
  \/ \E p \in Priorities : UserSchedule(p)
  \/ \E id \in 1..(MaxTasks + 1) : UserCancel(id)
  \/ TaskReturn
  \/ UserThrow
  \/ ProcessTaskQueue
  \/ DrainExecute
  \/ DrainYield
  \/ DrainFinish
  \/ Continuation
  \/ Tick

Next ==
  \/ BeginTurn
  \/ TurnEnd
  \/ UserThrow
  \/ ProcessTaskQueue
  \/ DrainExecute
  \/ DrainFinish
  \/ \E s \in Signals : Read(s)
  \/ \E s \in Signals : \E nv \in Values \cup Updaters : Write(s, nv)
  \/ CreateEffect
  \/ EffectReturn
  \/ NotifyNext
  \/ NotifyDone

NestNext ==
  \/ Next
  \/ NestedEffect

DisposeNext ==
  \/ Next
  \/ \E e \in Effects : CallDisposer(e)

SchedulerInit == Loaded /\ track = {"log", "snap", "yield"}

CancelInit == Loaded /\ track = {"cancel"}

ThrowInit == Loaded /\ track = {"throws", "snap"}

Init == Loaded /\ track = {"subs", "batch", "throws"}

WriteInit == Loaded /\ track = {"writes"}

ReadsInit == Loaded /\ track = {"reads", "throws"}

DisposeInit == Loaded /\ track = {"dispose"}

NestInit == Loaded /\ track = {"reads"}

KeyedNext ==
  \/ BeginTurn
  \/ TurnEnd
  \/ \E el \in KeyedTrees : Render(el)

KeyedInit == Loaded /\ track = {"ops"}

RemovalNext ==
  \/ BeginTurn
  \/ TurnEnd
  \/ \E el \in MixedTrees : Render(el)

RemovalInit == Loaded /\ track = {"ops", "cleanups"}

CompNext ==
  \/ BeginTurn
  \/ TurnEnd
  \/ \E el \in CompTrees : Render(el)

CleanupNext ==
  \/ BeginTurn
  \/ TurnEnd
  \/ \E el \in CompTrees : Render(el)
  \/ CallCleanup

UnmountNext ==
  \/ BeginTurn
  \/ TurnEnd
  \/ \E el \in MixedTrees : Render(el)
  \/ CallCleanup

ListNext ==
  \/ BeginTurn
  \/ TurnEnd
  \/ \E el \in ListTrees : Render(el)

TextNext ==
  \/ BeginTurn
  \/ TurnEnd
  \/ \E el \in TextTrees : Render(el)

RefNext ==
  \/ BeginTurn
  \/ TurnEnd
  \/ \E el \in RefTrees : Render(el)
  \/ CallCleanup
  \/ \E h \in hostCallbacks : AnimationFrame(h)

HandlerNext ==
  \/ BeginTurn
  \/ TurnEnd
  \/ \E el \in HandlerTrees : Render(el)

PropNext ==
  \/ BeginTurn
  \/ TurnEnd
  \/ \E el \in PropTrees : Render(el)

ViewNext ==
  \/ BeginTurn
  \/ TurnEnd
  \/ CreateView
  \/ ViewRun
  \/ \E v \in Values : TurnWrite(count, v)
  \/ ProcessTaskQueue
  \/ DrainExecute
  \/ NotifyNext
  \/ NotifyDone
  \/ DrainFinish

MemoNext ==
  \/ BeginTurn
  \/ TurnEnd
  \/ CreateMemo
  \/ MemoRun
  \/ ReadMemo
  \/ \E v \in Values : TurnWrite(count, v)
  \/ ProcessTaskQueue
  \/ DrainExecute
  \/ NotifyNext
  \/ NotifyDone
  \/ DrainFinish

\* a memo created after an effect that reads the same signal
SiblingNext ==
  \/ BeginTurn
  \/ TurnEnd
  \/ SiblingEffect
  \/ SiblingRead
  \/ SiblingReturn
  \/ SiblingThrow
  \/ CreateMemoAs(2)
  \/ MemoRunOf(2)
  \/ ReadMemo
  \/ \E v \in Values : TurnWrite(count, v)
  \/ ProcessTaskQueue
  \/ DrainExecute
  \/ NotifyNext
  \/ NotifyDone
  \/ DrainFinish

ResourceNext ==
  \/ BeginTurn
  \/ TurnEnd
  \/ CreateResource
  \/ ResourceRun
  \/ Refetch
  \/ \E f \in fetches : \E ok \in BOOLEAN : Settle(f, ok)
  \/ \E v \in Values : TurnWrite(source, v)
  \/ ProcessTaskQueue
  \/ DrainExecute
  \/ NotifyNext
  \/ NotifyDone
  \/ DrainFinish

TagNext ==
  \/ BeginTurn
  \/ TurnEnd
  \/ \E el \in TagTrees : Render(el)

\* the scheduler alone, driven by user code that only schedules and cancels
LayoutNext ==
  \/ BeginTurn
  \/ TurnEnd
  \/ UserSchedule(NORMAL)
  \/ AfterLayout
  \/ AfterPaint
  \/ \E supported \in BOOLEAN : ScheduleIdle(supported)
  \/ \E h \in hostCallbacks : AnimationFrame(h)
  \/ \E h \in hostCallbacks : TimerOrIdle(h)
  \/ Tick
  \/ ProcessTaskQueue
  \/ DrainExecute
  \/ DrainYield
  \/ DrainFinish
  \/ Continuation
  \/ TaskReturn

LayoutInit == Loaded /\ track = {"layout"}

LayoutSpec == LayoutInit /\ [][LayoutNext]_vars

\* the host keeps running: every macrotask and drain returns, and a callback
\* the host holds gets its animation frame, timer or idle period
LayoutFairSpec ==
  /\ LayoutSpec
  /\ WF_vars(TurnEnd) /\ WF_vars(TaskReturn) /\ WF_vars(ProcessTaskQueue)
  /\ WF_vars(DrainExecute) /\ WF_vars(DrainYield) /\ WF_vars(DrainFinish)
  /\ SF_vars(\E h \in hostCallbacks : AnimationFrame(h))
  /\ SF_vars(\E h \in hostCallbacks : TimerOrIdle(h))

SchedulerSpec == SchedulerInit /\ [][SchedulerNext]_vars

\* the host keeps running: macrotasks and task callbacks return, queued
\* microtasks run, animation frames keep firing
SchedulerFairSpec ==
  /\ SchedulerSpec
  /\ WF_vars(TurnEnd) /\ WF_vars(TaskReturn) /\ WF_vars(ProcessTaskQueue)
  /\ WF_vars(DrainExecute) /\ WF_vars(DrainYield) /\ WF_vars(DrainFinish)
  /\ SF_vars(Continuation)

CancelSpec == CancelInit /\ [][SchedulerNext]_vars

ThrowSpec == ThrowInit /\ [][SchedulerNext]_vars

\* the scheduler and the reactivity system
Spec == Init /\ [][Next]_vars

WriteSpec == WriteInit /\ [][Next]_vars

ReadsSpec == ReadsInit /\ [][Next]_vars

DisposeSpec == DisposeInit /\ [][DisposeNext]_vars

\* effects created by the bodies of running effects
NestSpec == NestInit /\ [][NestNext]_vars

\* render and diff on lists of keyed children
KeyedSpec == KeyedInit /\ [][KeyedNext]_vars

RemovalSpec == RemovalInit /\ [][RemovalNext]_vars

TagSpec == KeyedInit /\ [][TagNext]_vars

CompSpec == KeyedInit /\ [][CompNext]_vars

CleanupSpec == KeyedInit /\ [][CleanupNext]_vars

RefSpec == KeyedInit /\ [][RefNext]_vars

TextSpec == KeyedInit /\ [][TextNext]_vars

ListSpec == KeyedInit /\ [][ListNext]_vars

UnmountSpec == RemovalInit /\ [][UnmountNext]_vars

HandlerSpec == KeyedInit /\ [][HandlerNext]_vars

PropSpec == KeyedInit /\ [][PropNext]_vars

ViewSpec == KeyedInit /\ [][ViewNext]_vars

MemoInit == Loaded /\ track = {"memo"}

MemoSpec == MemoInit /\ [][MemoNext]_vars

SiblingSpec == MemoInit /\ [][SiblingNext]_vars

ResourceInit == Loaded /\ track = {"fetch"}

ResourceSpec == ResourceInit /\ [][ResourceNext]_vars

\* ------------------------------------------------------ scheduler claims
\* positions in started of the tasks started by the current drain
StartedInDrain == (drainBase + 1)..Len(started)

Without(q, id) ==
  LET Keep(task) == task.id # id IN SelectSeq(q, Keep)

\* C1: of the tasks that were queued when a drain began, the drain starts
\* every HIGH task before any NORMAL task and every NORMAL task before any LOW
\* task: the ones it has started are in priority order, and none of them has a
\* lower priority than one that still waits.
C1_DrainByPriority ==
  /\ \A i \in StartedInDrain : \A j \in StartedInDrain :
       (i < j /\ started[i].id \in drainSnap /\ started[j].id \in drainSnap)
         => started[i].pri <= started[j].pri
  /\ \A i \in StartedInDrain : \A p \in Priorities :
       \A k \in 1..Len(taskQueue[p]) :
         (started[i].id \in drainSnap /\ taskQueue[p][k].id \in drainSnap)
           => started[i].pri <= p

\* three tasks scheduled LOW, NORMAL, HIGH were started HIGH, NORMAL, LOW by
\* one drain
C1_Witness ==
  \E i \in StartedInDrain : \E j \in StartedInDrain : \E k \in StartedInDrain :
    /\ i < j /\ j < k
    /\ {started[i].id, started[j].id, started[k].id} \subseteq drainSnap
    /\ started[i].pri = HIGH /\ started[j].pri = NORMAL /\ started[k].pri = LOW
    /\ started[k].id < started[j].id /\ started[j].id < started[i].id

\* C7: cancelTask(id) returns true exactly when the task is queued; it then
\* removes that task alone, keeping the order of the others, and the task's
\* callback never starts; otherwise it returns false and changes nothing.
C7_CancelTask ==
  /\ [][DrainExecute => cur'.id \notin cancelled]_vars
  /\ [][\A id \in 1..(MaxTasks + 1) :
          UserCancel(id) =>
            /\ ret' = (id \in QueuedIds)
            /\ \A p \in Priorities : taskQueue'[p] = Without(taskQueue[p], id)
            /\ UNCHANGED <<nextTaskId, isScheduled, microtasks, rafs, cur,
                           started, inDrain, priority>>]_vars

\* a queued task was cancelled while another task, started earlier, was
\* running and others stayed queued
C7_Witness ==
  /\ ret
  /\ cancelled # {}
  /\ QueuedIds # {}
  /\ cur # NoTask

\* C8: an exception thrown by a task's callback is caught inside the drain:
\* the drain goes on at the same priority level with the queues as they are,
\* one error is reported and nothing reaches the host.
C8_ThrowCaught ==
  [][(UserThrow /\ stack[1].kind # "turn") =>
       /\ inDrain'
       /\ priority' = priority
       /\ taskQueue' = taskQueue
       /\ reported' = reported + 1
       /\ UNCHANGED <<escaped, isScheduled, microtasks, rafs>>]_vars

\* of the tasks that were queued when the drain began, one threw and the
\* same drain, still at the same level, is now running a task queued behind it
C8_Witness ==
  /\ inDrain
  /\ cur # NoTask
  /\ cur.id \in drainSnap
  /\ \E id \in threw \cap drainSnap : id = cur.id - 1
  /\ reported = 1
  /\ Len(taskQueue[priority]) > 0

\* C9: whenever a NORMAL or LOW task starts, no HIGH task is waiting in the
\* queue (a queued HIGH task always runs before a NORMAL or LOW task that has
\* not started).
C9_HighRunsFirst ==
  [][DrainExecute => (priority' # HIGH => taskQueue[HIGH] = <<>>)]_vars

\* C10: within one priority level tasks start in the order they were
\* scheduled, that is in ascending id.
C10_FifoWithinPriority ==
  \A i \in 1..Len(started) : \A j \in 1..Len(started) :
    (i < j /\ started[i].pri = started[j].pri)
      => started[i].id < started[j].id

\* ids that left the queues without starting: the cancelled ones
NeverStarted ==
  {id \in 1..(nextTaskId - 1) :
     id \notin QueuedIds /\ \A i \in 1..Len(started) : started[i].id # id}

\* two tasks of one level started in order although a drain ran out of time
\* in front of the second and a task scheduled between them was cancelled
C10_Witness ==
  \E i \in 1..Len(started) : \E j \in 1..Len(started) :
    /\ i < j
    /\ started[i].pri = started[j].pri
    /\ started[j].id \in yielded
    /\ \E c \in NeverStarted : started[i].id < c /\ c < started[j].id

\* ----------------------------------------------------- reactivity claims
\* JavaScript's ===, the equality of the signal values: NaN equals nothing
StrictlyEqual(a, b) == a = b /\ a # NaN

\* no exception has been thrown
NothingThrown == reported = 0 /\ ~escaped

\* C2: when one turn wrote several signals an effect was subscribed to, the
\* drain that follows runs the effect once, not once per signal: of the
\* notifications of one turn, no two for different signals call the same
\* effect (as long as nothing throws).
C2_OneRunPerTurn ==
  NothingThrown =>
    \A a \in batchRan : \A b \in batchRan : a[1] = b[1] => a[2] = b[2]

\* C3: a write whose resolved value equals the stored value schedules no
\* task, runs no effect, and leaves the value, the subscribers and the
\* scheduler as they are.
C3_EqualWriteNotifiesNobody ==
  [][\A s \in Signals : \A nv \in Values \cup Updaters :
       (StrictlyEqual(value[s], Resolve(nv, value[s])) /\ Write(s, nv))
         => UNCHANGED <<value, subscribers, schedVars, loopVars, stack,
                        currentEffect, nEffects, escaped>>]_vars

\* a write of the stored value was made to a signal that has a subscriber
C3_Witness ==
  /\ lastWrite.sig # 0
  /\ ~lastWrite.changed
  /\ subscribers[lastWrite.sig] # <<>>
  /\ value[lastWrite.sig] # "0"

\* the number of calls of effect e made by the running notify task
CallsOf(e) == Cardinality({i \in 1..Len(ranInTask) : ranInTask[i] = e})

\* C4: a write that changes the value stores it at once, runs no effect
\* inside write, queues one task at NORMAL priority, and that task calls every
\* effect that was subscribed at the time of the write exactly once.
C4_WriteRunsSubscribersOnce ==
  /\ [][\A s \in Signals : \A nv \in Values \cup Updaters :
          (Write(s, nv) /\ ~StrictlyEqual(value[s], Resolve(nv, value[s])))
            => /\ value'[s] = Resolve(nv, value[s])
               /\ UNCHANGED <<stack, currentEffect>>
               /\ Len(taskQueue'[NORMAL]) = Len(taskQueue[NORMAL]) + 1
               /\ UNCHANGED <<taskQueue[HIGH], taskQueue[LOW]>>]_vars
  /\ [][((NotifyDone \/ (UserThrow /\ stack[1].kind = "notify")) /\ ~escaped)
          => \A e \in cur.callback.subs : CallsOf(e) = 1]_vars

\* C5: a write to S never runs an effect whose latest run, finished before
\* the write, did not read S (as long as nothing throws).
C5_UnreadSignalDoesNotRun ==
  [][(NotifyNext /\ NothingThrown)
       => Head(Top.pending) \notin cur.callback.unread]_vars

\* C6: once the function createEffect returned has been called, the effect is
\* in no subscriber set and its fn does not run, neither in that call nor later.
C6_DisposedEffectIsGone ==
  \A e \in disposed :
    /\ \A s \in Signals : e \notin Range(subscribers[s])
    /\ \A i \in 1..Len(stack) : stack[i].eff # e

\* --------------------------------------------------------- diff claims
\* the node rendered for the root element
RootNode == FirstChild(nodes)

\* the keys of an element's children, in order
KidsKeys(el) == [i \in DOMAIN el.children |-> el.children[i].key]

\* this step is a render call that diffed the stored tree against lastInput'
Rerendered ==
  /\ renders' = renders + 1
  /\ renderRoot.element # NoEl
  /\ RootNode # NoNode
  /\ lastInput' # NoEl

\* the node that renders the old child with key k
NodeOfKey(k) ==
  LET keys == KidsKeys(renderRoot.element)
      i == CHOOSE j \in DOMAIN keys : keys[j] = k
  IN nodes[RootNode].kids[i]

\* the text of the node's first child
TextIn(heap, n) == heap[heap[n].kids[1]].text

OmitsB ==
  /\ Rerendered
  /\ "b" \in Range(KidsKeys(renderRoot.element))
  /\ "b" \notin Range(KidsKeys(lastInput'))
  /\ Range(KidsKeys(lastInput')) \subseteq Range(KidsKeys(renderRoot.element))

\* the children of the new list have the nodes they had
StayingKeepNodes ==
  nodes'[RootNode].kids =
    [i \in DOMAIN lastInput'.children |-> NodeOfKey(lastInput'.children[i].key)]

\* C13: a new list that omits the child keyed b of the old list runs the
\* cleanups that b registered with onUnmount and detaches b's node; the
\* children that stay keep their nodes.
C13_RemovalCleansUp ==
  [][OmitsB => /\ ParentOf(nodes', NodeOfKey("b")) = NoNode
               /\ StayingKeepNodes
               /\ "b" \in asked => "b" \in cleaned']_vars

\* the part of C13 the code keeps: b's node is detached, the others stay
C13_RemovalDetaches ==
  [][OmitsB => /\ ParentOf(nodes', NodeOfKey("b")) = NoNode
               /\ StayingKeepNodes]_vars

\* the position of key k among the children of el
IndexOfKey(el, k) == CHOOSE i \in DOMAIN el.children : el.children[i].key = k

\* the keys that the old and the new list give to different intrinsic tags
Retagged ==
  {k \in Range(KidsKeys(renderRoot.element)) \cap Range(KidsKeys(lastInput')) :
     LET old == renderRoot.element.children[IndexOfKey(renderRoot.element, k)]
         new == lastInput'.children[IndexOfKey(lastInput', k)]
     IN ~IsFn(old.type) /\ ~IsFn(new.type) /\ old.type # new.type}

\* C14: an old and a new child with the same key and different intrinsic
\* tags are not reused in place: the child's position holds a node of the
\* new tag created by this diff, and the old node is detached.
C14_KeyedRetagReplaces ==
  [][Rerendered =>
       \A k \in Retagged :
         LET i == IndexOfKey(lastInput', k)
             n == nodes'[RootNode].kids[i]
         IN /\ n \notin DOMAIN nodes
            /\ nodes'[n].tag = lastInput'.children[i].type
            /\ ParentOf(nodes', NodeOfKey(k)) = NoNode
            /\ "create" \in lastOps']_vars

\* <li key=a> was rendered, then <p key=a>: the list's only node is a <p>
\* made by the second render
C14_Witness ==
  /\ renders = 2
  /\ RootNode # NoNode
  /\ lastInput = TagList(<<"a">>, <<"p">>)
  /\ "create" \in lastOps
  /\ nodes[nodes[RootNode].kids[1]].tag = "p"
  /\ \E n \in DOMAIN nodes : nodes[n].tag = "li" /\ ParentOf(nodes, n) = NoNode

\* old and new are elements of two different component functions
OtherComponent(old, new) ==
  IsFn(old.type) /\ IsFn(new.type) /\ old.type # new.type

\* both elements have exactly one child, and these are elements of two
\* different component functions
OtherComponentInside(old, new) ==
  /\ Len(old.children) = 1 /\ Len(new.children) = 1
  /\ OtherComponent(old.children[1], new.children[1])

\* C15: an element of component function A diffed against an element of
\* another component function B is replaced as a whole: the node in its place
\* afterwards was created by this diff and A's node is detached, whether the
\* two elements are the root or the only child of the root.
C15_OtherComponentReplaces ==
  [][Rerendered =>
       /\ OtherComponent(renderRoot.element, lastInput')
            => /\ FirstChild(nodes') \notin DOMAIN nodes
               /\ ParentOf(nodes', RootNode) = NoNode
       /\ OtherComponentInside(renderRoot.element, lastInput')
            => /\ nodes'[RootNode].kids[1] \notin DOMAIN nodes
               /\ ParentOf(nodes', nodes[RootNode].kids[1]) = NoNode]_vars

\* C16: rendering again the tree that was rendered last calls no mutating
\* method of the DOM: no setAttribute or removeAttribute, no addEventListener
\* or removeEventListener, no node created, inserted or removed.
C16_SameTreeNoMutation ==
  [][(Rerendered /\ lastInput' = lastInput) => lastOps' = {}]_vars

\* what does hold for C16's case: the nodes are afterwards as they were
C16_SameTreeSameNodes ==
  [][(Rerendered /\ lastInput' = lastInput) => nodes' = nodes]_vars

\* a view effect exists and every notification has been delivered
ViewSettled ==
  /\ Idle
  /\ microtasks = 0
  /\ QueuedIds = {}
  /\ subscribers[count] # <<>>

\* the node the first render call made for the <p>
FirstRendered == Container + 1

\* C11: once the drain that follows a write to count has run the view effect,
\* the rendered <p> is still the node the first render made and its text
\* node shows the value of count.
C11_ViewShowsCount ==
  ViewSettled =>
    /\ RootNode = FirstRendered
    /\ TextIn(nodes, RootNode) = value[count]

\* the part of C11 the code keeps: the <p> node is reused
C11_ViewKeepsNode == ViewSettled => RootNode = FirstRendered

\* this step is a read of the memo by top-level code
ReadsMemo == memoReads' = memoReads + 1

\* no write has changed a signal so far: no notification was ever scheduled
NothingChanged == nextTaskId = 1

\* C17: a read of the memo never invokes f, and when the memo has been
\* created and read twice while no signal changed, f has been invoked once
\* in total.
C17_MemoCallsOnce ==
  [][ReadsMemo =>
       /\ fCalls' = fCalls
       /\ (memoReads' = 2 /\ NothingChanged) => fCalls' = 1]_vars

\* the part of C17 the code keeps: reading the memo does not invoke f
C17_ReadDoesNotCall == [][ReadsMemo => fCalls' = fCalls]_vars

\* C18: every read of the memo returns f evaluated on the value count has at
\* the time of the read, whether or not a drain ran since the last write.
C18_MemoReadIsFresh ==
  [][ReadsMemo => memoRead' = F(value[count])]_vars

\* the part of C18 the code keeps: a read made when every notification has
\* been delivered returns f of the current value
C18_MemoFreshAfterDrain ==
  [][(ReadsMemo /\ QueuedIds = {}) => memoRead' = F(value[count])]_vars

\* this step calls fetcher / settles a fetch; the fetch it settles
StartsFetch == nFetches' = nFetches + 1
Settles == Len(settled') = Len(settled) + 1
JustSettled == settled'[Len(settled')]

\* this step is a run of the resource's effect
RunsEffect == stack # <<>> /\ Top.kind = "effect" /\ stack' = Pop(stack)

\* the signals after the fetch s was fulfilled or rejected
Applied(s) ==
  /\ s.ok => value'[data] = Result(s)
  /\ ~s.ok => value'[error] = Rejection(s)

\* C19: every run of the resource's effect and every refetch call starts a
\* fetch, and starting a fetch leaves loading true and error null and calls
\* fetcher with the current value of source; a fulfilled fetch leaves data at
\* its result and loading false, a rejected fetch leaves error at the
\* rejection and loading false.
C19_ResourceLifecycle ==
  [][/\ RunsEffect => StartsFetch
     /\ StartsFetch =>
          /\ value'[loading] = "true"
          /\ value'[error] = "null"
          /\ fetches' = fetches \cup {[id |-> nFetches', key |-> value[source]]}
     /\ Settles => Applied(JustSettled) /\ value'[loading] = "false"]_vars

\* a refetch was made, one fetch was fulfilled and the other rejected
C19_Witness ==
  /\ Len(settled) = 2
  /\ settled[1].ok /\ ~settled[2].ok
  /\ value[data] = Result(settled[1])
  /\ value[error] = Rejection(settled[2])
  /\ value[loading] = "false"

\* C20: the settlement of a fetch is applied also when a later fetch has
\* been started since, or has even been settled already: the signals take the
\* outcome of the superseded fetch.
C20_StaleSettlementApplies ==
  [][(Settles /\ JustSettled.id < nFetches) => Applied(JustSettled)]_vars

\* fetch 1 was fulfilled after fetch 2, and data holds the result of fetch 1
C20_Witness ==
  /\ Len(settled) = 2
  /\ settled[1].id = 2 /\ settled[2].id = 1
  /\ settled[1].ok /\ settled[2].ok
  /\ value[data] = Result(settled[2])
  /\ value[data] # Result(settled[1])

\* C21: the settlement of a rejected fetch throws nothing to anybody: no
\* exception reaches the host or a drain's catch and no frame of user code is
\* on the stack; the error signal holds the rejection wrapped as an Error,
\* loading is false and data holds what it held before.
C21_RejectionIsStored ==
  [][(Settles /\ ~JustSettled.ok) =>
       /\ ~escaped' /\ reported' = reported
       /\ stack = <<>> /\ stack' = <<>>
       /\ value'[error] = Rejection(JustSettled)
       /\ value'[loading] = "false"
       /\ value'[data] = value[data]]_vars

\* a fetch was rejected after data had been set by an earlier fetch: data
\* still holds the earlier result
C21_Witness ==
  /\ Len(settled) = 2
  /\ settled[1].ok /\ ~settled[2].ok
  /\ value[data] = Result(settled[1])
  /\ value[error] = Rejection(settled[2])
  /\ ~escaped

\* ------------------------------------------------ reconciliation claims
\* node n of the heap shows element el: its tag is el's type and its
\* children show el's children, a primitive child as a text node of its value
RECURSIVE Shows(_, _, _)
Shows(heap, n, el) ==
  IF ~IsObject(el)
    THEN heap[n].tag = "#textnode" /\ heap[n].text = el.value
  ELSE IF IsFn(el.type) THEN Shows(heap, n, Output(el.type, el.props))
  ELSE /\ heap[n].tag = el.type
       /\ Len(heap[n].kids) = Len(el.children)
       /\ \A i \in DOMAIN el.children :
            Shows(heap, heap[n].kids[i], el.children[i])

\* the keys updateChildren gives the children of el
ChildKeys(el) == {KeyOf(el.children[i], i - 1) : i \in DOMAIN el.children}

Diffs ==
  /\ renders' = renders + 1
  /\ renderRoot.element # NoEl
  /\ RootNode # NoNode

\* C26: after a diff every primitive child of the new tree is a text node
\* holding the child's value (the diff does not throw, and the rendered node
\* shows the new tree), also when a primitive changed its value and when a
\* primitive was added to a list that was not empty.
C26_PrimitivesAreTextNodes ==
  [][Diffs => /\ lastInput' # NoEl
              /\ Shows(nodes', FirstChild(nodes'), lastInput')]_vars

\* the part of C26 the code keeps: primitives added to an empty list are
\* shown
C26_FromEmpty ==
  [][(Diffs /\ renderRoot.element.children = <<>>)
       => /\ lastInput' # NoEl
          /\ Shows(nodes', FirstChild(nodes'), lastInput')]_vars

\* what the code does when a primitive is added to a list that is not
\* empty: the render call throws
C26_AddedPrimitiveThrows ==
  [][(Diffs /\ renderRoot.element.children # <<>>
            /\ \E el \in TextTrees :
                 /\ Len(el.children) > Len(renderRoot.element.children)
                 /\ Rendered(RenderResult(el, nodes, renderRoot), el))
       => lastInput' = NoEl]_vars

\* old and new are elements of one component function
SameComponent(old, new) == IsFn(old.type) /\ old.type = new.type

\* C27: when the root of the new tree is an element of the component function
\* the root of the old tree was made of, the node rendered for it keeps its
\* identity (the component's output has the same tag) and no node is
\* created, on the first update after the mount as on later ones.
C27_SameComponentKeepsNode ==
  [][(Rerendered /\ SameComponent(renderRoot.element, lastInput'))
       => /\ FirstChild(nodes') = RootNode
          /\ "create" \notin lastOps']_vars

\* the part of C27 the code keeps: updates of an element whose output was
\* saved by an earlier diff
C27_LaterUpdatesKeepNode ==
  [][(Rerendered /\ SameComponent(renderRoot.element, lastInput')
                 /\ renderRoot.element.rendered # NoEl)
       => /\ FirstChild(nodes') = RootNode
          /\ "create" \notin lastOps']_vars

\* --------------------------------------------------------- ref claims
\* el or one of its children has a function-valued ref prop
HasRef(el) ==
  \/ "ref" \in DOMAIN el.props
  \/ \E i \in DOMAIN el.children : "ref" \in DOMAIN el.children[i].props

\* this step is a render call, finished without an exception, of a tree
\* holding a ref
RendersRef ==
  /\ renders' = renders + 1
  /\ lastInput' # NoEl
  /\ HasRef(lastInput')

\* C28: a render call of a tree holding a ref (the first one, which mounts,
\* or a later one, which diffs) does not call the ref: it hands afterLayout
\* a callback, which the host calls later.
C28_RefIsDeferred ==
  [][RendersRef => /\ "ref" \notin lastOps'
                   /\ nCallbacks' = nCallbacks + 1
                   /\ invoked' = invoked]_vars

\* the part of C28 the code keeps: a render call that diffs defers the ref
C28_DiffDefersRef ==
  [][(RendersRef /\ Diffs) => /\ "ref" \notin lastOps'
                              /\ nCallbacks' = nCallbacks + 1
                              /\ invoked' = invoked]_vars

\* ----------------------------------------------------- unmount claims
\* this step is a call of the function render returned, made while the
\* container holds a rendered tree
CleansUp ==
  /\ renders' = renders
  /\ renderRoot # NoRoot
  /\ renderRoot' = NoRoot

\* C23: once the function render returned has run, the container has no
\* child left, whatever render calls were made on the container before.
C23_CleanupEmptiesContainer ==
  [][CleansUp => nodes'[Container].kids = <<>>]_vars

\* the part of C23 the code keeps: the node of the first render, if it is
\* still the container's child, is removed
C23_CleanupRemovesMounted ==
  [][CleansUp => renderRoot.mount.node \notin Range(nodes'[Container].kids)]_vars

\* the mounted records of the components that called onUnmount while the
\* tree root holds was mounted
MountedAskers(root) ==
  IF root.mount = NoMounted THEN {}
  ELSE {m \in Range(root.mount.children) : CallsOnUnmount(m.element.type)}

\* C24: the callback a component gave to onUnmount while it was mounted is
\* in the cleanup list of the component's mounted record, and it is called
\* when the function render returned unmounts the component.
C24_OnUnmountRegisters ==
  [][/\ \A m \in MountedAskers(renderRoot') :
          m.element.key \in asked' => m.element.key \in Range(m.cleanup)
     /\ CleansUp =>
          \A m \in MountedAskers(renderRoot) :
            m.element.key \in asked => m.element.key \in cleaned']_vars

\* what the code does: the component ran and called onUnmount, and no cleanup
\* was ever called
C24_NothingIsCalled == cleaned = {}

\* the cleanups an unmount of m has to call, innermost first: those of the
\* children of m, then the one the component of m registered with onUnmount
RECURSIVE InnermostFirst(_)
RECURSIVE InnermostFirstOf(_, _)
InnermostFirstOf(children, i) ==
  IF i > Len(children) THEN <<>>
  ELSE InnermostFirst(children[i]) \o InnermostFirstOf(children, i + 1)

InnermostFirst(m) ==
  InnermostFirstOf(m.children, 1)
    \o (IF CallsOnUnmount(m.element.type) THEN <<m.element.key>> ELSE <<>>)

\* C29: unmounting the mounted tree of the container calls the cleanups of
\* the tree innermost first: those of the descendants of a mounted node
\* before the node's own; the node is detached after them.
C29_CleanupsInnermostFirst ==
  renderRoot.mount # NoMounted =>
    LET r == Unmount(renderRoot.mount, Dom(nodes))
    IN /\ r.ran = InnermostFirst(renderRoot.mount)
       /\ ParentOf(r.nodes, renderRoot.mount.node) = NoNode

\* a mounted record whose node and whose child's node each have a cleanup,
\* as unmount's parameter type allows, and its heap
SampleMounted ==
  [element |-> El("div", "", NoProps, <<El("p", "", NoProps, <<>>)>>),
   node |-> 2, cleanup |-> <<"outer">>,
   children |-> <<[element |-> El("p", "", NoProps, <<>>), node |-> 3,
                   cleanup |-> <<"inner">>, children |-> <<>>]>>]

SampleHeap ==
  <<[Node("div", "") EXCEPT !.kids = <<2>>],
    [Node("div", "") EXCEPT !.kids = <<3>>], Node("p", "")>>

\* what unmount does with such a record: the node's own cleanups are called
\* before those of its children, and the node is detached last
C29_OwnCleanupsFirst ==
  LET r == Unmount(SampleMounted, Dom(SampleHeap))
  IN /\ r.ran = <<"outer", "inner">>
     /\ ParentOf(r.nodes, 2) = NoNode /\ ParentOf(r.nodes, 3) = NoNode

\* the old tree has a ref on its root; on its only child
RootHasRef(el) == "ref" \in DOMAIN el.props
ChildHasRef(el) ==
  el.children # <<>> /\ "ref" \in DOMAIN el.children[1].props

\* C30: when the function render returned unmounts a node whose element has
\* a ref, and when a diff removes such a node, the ref is called with null,
\* and the node has no parent afterwards.
C30_RefNullOnUnmount ==
  [][/\ (CleansUp /\ RootHasRef(renderRoot.element))
          => /\ "refNull" \in lastOps'
             /\ ParentOf(nodes', renderRoot.mount.node) = NoNode
     /\ (Diffs /\ ChildHasRef(renderRoot.element) /\ lastInput' # NoEl
               /\ ~ChildHasRef(lastInput'))
          => /\ "refNull" \in lastOps'
             /\ ParentOf(nodes', nodes[RootNode].kids[1]) = NoNode]_vars

\* the part of C30 the code keeps: the node is detached in both cases
C30_NodeIsDetached ==
  [][/\ (CleansUp /\ RootHasRef(renderRoot.element))
          => ParentOf(nodes', renderRoot.mount.node) = NoNode
     /\ (Diffs /\ ChildHasRef(renderRoot.element) /\ lastInput' # NoEl
               /\ ~ChildHasRef(lastInput'))
          => ParentOf(nodes', nodes[RootNode].kids[1]) = NoNode]_vars

\* --------------------------------------------- deferred callback claims
\* this step is a call of afterLayout, afterPaint or scheduleIdle; this step
\* calls callback c
Registers == nCallbacks' = nCallbacks + 1
Calls(c) == invoked'[c] = invoked[c] + 1

\* C22: the call that registers a callback calls no callback; a callback is
\* called only by the host, when no user code and no processTaskQueue call is
\* on the stack (the registering turn and the drain active then have ended),
\* and only if it was registered and has not been called before.
C22_DeferredToLaterTurn ==
  [][/\ Registers => invoked' = invoked
     /\ \A c \in 1..MaxCallbacks :
          Calls(c) =>
            /\ Idle
            /\ \E h \in hostCallbacks : h.id = c
            /\ invoked[c] = 0]_vars

\* the first callback was called once; the second was registered by a task
\* inside a drain, the drain is over and the host still holds the callback
C22_Witness ==
  /\ Idle
  /\ nCallbacks = 2
  /\ invoked[1] = 1 /\ invoked[2] = 0
  /\ \E h \in hostCallbacks : h.id = 2 /\ h.drain

\* every callback the host holds is called in the end, if the host serves
\* its animation frames, timers and idle periods
C22_CalledInTheEnd ==
  \A c \in 1..MaxCallbacks : (nCallbacks >= c) ~> (invoked[c] = 1)

\* ------------------------------------------------------ time-slice claims
\* processTaskQueue stands between two tasks
BetweenTasks == inDrain /\ stack = <<>>

\* C31: in a drain a HIGH task is started whatever the time is; a NORMAL or
\* LOW task is started only before the deadline; when the deadline has passed
\* in front of a NORMAL or LOW task the drain ends there, leaves the queues as
\* they are and hands a continuation to requestAnimationFrame; the
\* continuation sets a deadline one frame ahead and queues the next drain.
C31_DeadlineStopsLowerTasks ==
  [][/\ (BetweenTasks /\ stack' # <<>>)
          => (priority' = HIGH \/ now < currentFrameDeadline)
     /\ (BetweenTasks /\ NextLevel(priority) = HIGH) => inDrain'
     /\ (BetweenTasks /\ NextLevel(priority) \in {NORMAL, LOW}
                      /\ now >= currentFrameDeadline /\ now' = now)
          => /\ ~inDrain' /\ stack' = <<>>
             /\ taskQueue' = taskQueue
             /\ started' = started
             /\ rafs' = rafs + 1
     /\ rafs' < rafs
          => /\ currentFrameDeadline' = now + frameLength
             /\ microtasks' = microtasks + 1
             /\ ~inDrain' /\ taskQueue' = taskQueue]_vars

\* a drain ran out of time in front of a NORMAL or LOW task, the continuation
\* ran, and a later drain is running that task, after a HIGH task that was
\* scheduled behind it
C31_Witness ==
  /\ inDrain /\ cur # NoTask /\ cur.id \in yielded
  /\ rafs = 0
  /\ \E i \in 1..Len(started) :
       started[i].pri = HIGH /\ started[i].id > cur.id

\* ------------------------------------------------- event-handler claims
\* the listeners an element asks for: its handler props that hold a function
Handlers(el) ==
  {<<EventName(name), el.props[name]>> :
     name \in {x \in DOMAIN el.props :
                 IsListener(x) /\ el.props[x] \notin {"null", "false"}}}

\* node n of the heap and its child nodes carry exactly the listeners el and
\* its child elements ask for
RECURSIVE ListensAs(_, _, _)
ListensAs(heap, n, el) ==
  /\ heap[n].listeners = Handlers(el)
  /\ \A i \in 1..Len(el.children) :
       (IsObject(el.children[i]) /\ i <= Len(heap[n].kids))
         => ListensAs(heap, heap[n].kids[i], el.children[i])

\* C32: after a mount and any diffs, every node rendered for an element
\* carries exactly the listeners of the element's latest handler props: one
\* per prop that holds a function, none for a prop that is null or false or
\* gone, and none from an earlier tree.
C32_ListenersMatchLatestProps ==
  (lastInput # NoEl /\ RootNode # NoNode)
    => ListensAs(nodes, RootNode, lastInput)

\* a third render set the handler prop of a node that was kept to null, and
\* the listener the node had was removed
C32_Witness ==
  /\ renders = 3
  /\ lastInput # NoEl /\ RootNode = 2
  /\ "onclick" \in DOMAIN lastInput.props /\ lastInput.props.onclick = "null"
  /\ "removeEventListener" \in lastOps
  /\ nodes[RootNode].listeners = {}

\* ------------------------------------------------------- progress claims
\* a drain is queued as a microtask, or a continuation waits for a frame
DrainPending == microtasks > 0 \/ rafs > 0

\* C33: while a task is queued, a drain is running or a drain or a
\* continuation is pending.
C33_QueuedTaskHasDrain ==
  QueuedIds # {} => (inDrain \/ DrainPending)

\* a task is queued, no drain runs and no microtask is queued: only the
\* continuation of a drain that ran out of time will get to the task
C33_Witness ==
  /\ QueuedIds # {} /\ ~inDrain /\ microtasks = 0 /\ rafs = 1
  /\ stack = <<>>

\* C33, the progress it gives when the host keeps running and callbacks
\* return: every queued task leaves its queue, started by a drain or cancelled
C33_QueuedTaskRuns ==
  \A id \in 1..MaxTasks : (id \in QueuedIds) ~> (id \notin QueuedIds)

\* -------------------------------------------------- nested effect claims
\* C34: every signal the body of an effect has read in its latest run has
\* the effect among its subscribers, also when the body created an effect
\* before the read.
C34_NestedEffectKeepsTracking ==
  \A e \in Effects : \A s \in lastRead[e] : e \in Range(subscribers[s])

\* the part of C34 the code keeps: a read made by the body of an effect
\* subscribes no other effect, and the reads a body makes before it creates
\* an effect subscribe its effect
C34_NoOtherEffectSubscribed ==
  /\ [][\A s \in Signals :
          (Read(s) /\ Top.kind = "effect")
            => Range(subscribers'[s]) \subseteq Range(subscribers[s]) \cup {Top.eff}]_vars
  /\ [](\A e \in Effects : \A s \in lastRead[e] :
          (nEffects = e /\ currentEffect = e) => e \in Range(subscribers[s]))

\* ------------------------------------------------ notification claims
\* this step ends the callback write scheduled: it returns, or an exception
\* leaves it
NotifyEnds == stack # <<>> /\ stack[1].kind = "notify" /\ stack' = <<>>

\* C35: when the task a write scheduled ends, every effect that was
\* subscribed to the signal at the write has been called by it, also when
\* one of the effects threw.
C35_ThrowSparesSiblings ==
  [][NotifyEnds => cur.callback.subs \subseteq Range(ranInTask)]_vars

\* the part of C35 the code keeps: the exception is caught by the drain,
\* which goes on with the next task; and a task none of whose effects throws
\* calls every subscriber
C35_DrainGoesOn ==
  [][NotifyEnds =>
       /\ inDrain' /\ taskQueue' = taskQueue /\ escaped' = escaped
       /\ NotifyDone => cur.callback.subs \subseteq Range(ranInTask)]_vars

\* ------------------------------------------------ pending-drain claims
\* the drains that are pending: processTaskQueue microtasks and continuations
PendingDrains == microtasks + rafs

\* C36: at most one drain is pending, and isScheduled is true exactly when
\* one is.
C36_OneDrainPending ==
  /\ PendingDrains <= 1
  /\ isScheduled <=> PendingDrains = 1

\* the part of C36 the code keeps: isScheduled is true only when a drain is
\* pending
C36_FlagImpliesPending == isScheduled => DrainPending

\* C37: while a drain runs, scheduleTask does not move the deadline the
\* drain checks.
C37_DeadlineFixedInDrain ==
  [][(inDrain /\ inDrain') => currentFrameDeadline' = currentFrameDeadline]_vars

\* the part of C37 the code keeps: the deadline changes only in a
\* scheduleTask call that arms a drain and in a continuation, and then to
\* one frame from now
C37_DeadlineOneFrameAhead ==
  [][currentFrameDeadline' # currentFrameDeadline =>
       /\ currentFrameDeadline' = now + frameLength
       /\ microtasks' = microtasks + 1]_vars

\* ------------------------------------------------------- loading claims
\* C38: while a fetch the resource started is unsettled, loading() is true;
\* loading() is false only when no fetch is in flight.
C38_LoadingWhileInFlight ==
  nEffects > 0 => (fetches # {} <=> value[loading] = "true")

\* the part of C38 the code keeps: while the only fetch the resource has
\* started is unsettled loading() is true, and when every fetch has settled
\* it is false
C38_LoadingOfOneFetch ==
  nEffects > 0 =>
    /\ (nFetches = 1 /\ fetches # {}) => value[loading] = "true"
    /\ fetches = {} => value[loading] = "false"

\* ------------------------------------------------- cleanup-count claims
\* how often x occurs in seq
Times(seq, x) == Cardinality({i \in 1..Len(seq) : seq[i] = x})

\* every cleanup of wanted was called exactly once in ran
EachOnce(ran, wanted) == \A c \in Range(wanted) : Times(ran, c) = 1

\* C39: unmounting the mounted tree of the container calls every cleanup
\* recorded for the tree exactly once, also the cleanup of a component whose
\* mounted record wraps the record of its output.
C39_EachCleanupOnce ==
  renderRoot.mount # NoMounted =>
    EachOnce(Unmount(renderRoot.mount, Dom(nodes)).ran,
             InnermostFirst(renderRoot.mount))

\* the mounted record mount returns for a component: node and cleanup are
\* those of the record of the component's output, and that record is its
\* only child; here the shared cleanup list holds one cleanup
SampleWrapped ==
  [element |-> El("T", "b", NoProps, <<>>), node |-> 2, cleanup |-> <<"b">>,
   children |-> <<[element |-> El("li", "", NoProps, <<>>), node |-> 2,
                   cleanup |-> <<"b">>, children |-> <<>>]>>]

\* what unmount does with such a record: the cleanup is called for the
\* component's record and again for the record of its output
C39_WrapperCallsTwice ==
  Unmount(SampleWrapped, Dom(SampleHeap)).ran = <<"b", "b">>

\* ---------------------------------------------------- memo settle claims
\* the memo exists; nothing is queued, running or about to run
MemoCreated == fCalls > 0
Quiet == QueuedIds = {} /\ Idle /\ microtasks = 0

\* C40: when the queues are empty and nothing runs, the memo holds f of the
\* current value of the signal f reads.
C40_MemoSettles ==
  (MemoCreated /\ Quiet) => value[memo] = F(value[count])

\* the part of C40 the code keeps: a drain in which the memo's effect was
\* called leaves the memo up to date
C40_MemoFreshAfterItsRun ==
  [][MemoRunOf(2) => value'[memo] = F(value[count])]_vars
====
